---- MODULE Spec2Model ----
(***************************************************************************)
(* Vote admission and consistency engine of behzadon/vote.                 *)
(*                                                                         *)
(* Spec       : the vote ledger (service.VoteOnPoll / UpdateVote /         *)
(*              DeleteVote / GetPollStats) over the repository of          *)
(*              internal/storage/postgres ("storage"), the one cmd/server  *)
(*              wires.  Every store statement is one step of the calling   *)
(*              request, so requests interleave between statements as      *)
(*              goroutines do.                                             *)
(* SpecLegacy : service.VoteOnPoll over the repository of                  *)
(*              internal/postgres ("legacy"), the one the stand-alone      *)
(*              main wires; its CreateVote also writes user_daily_votes.   *)
(* SpecRate   : the sustained rate limiter (RateLimiter.RateLimit) for one *)
(*              (user, route) key, requests handled one after the other.   *)
(***************************************************************************)
EXTENDS Integers, FiniteSets, Sequences, TLC

\* ---------------------------------------------------------------- bounds
\* number of service calls started in one behaviour
MaxCalls == 3

\* number of counted requests the sustained limiter receives in one behaviour
MaxRequests == 1002
\* the clock stops here
MaxTime == 60
\* number of failing counter-store calls in one behaviour
MaxFaults == 1
\* number of requests entering the limiter chain in one behaviour
MaxAdmits == 3
\* the clock of the limiter chain stops here (seconds)
MaxSeconds == 2
\* number of counted requests of a user who comes back after a pause
MaxReturns == 4
\* number of full rate windows the clock may run past the expiry of the
\* window key
MaxWindows == 4
\* number of facts handed to the exchange in one behaviour
MaxFacts == 3
\* readings of the wall clock one transaction can see
MaxStamp == 3

\* ------------------------------------------------------ program constants
MaxDailyVotes == 100
DefaultRateLimit == 1000
DefaultRateWindow == 60
DefaultBurstLimit == 500
DefaultCleanupWindow == 3600

\* ------------------------------------------------------------- universes
Users == {"u1", "u2"}
\* rows of the polls table (polls are immutable once created)
Polls == {"p1", "p2"}
\* poll ids a request may carry: p0 has no row
PollIds == Polls \cup {"p0"}
\* len(poll.Options) of every poll of Polls
PollOptions == <<"a", "b">>
NumOptions == Len(PollOptions)
\* option indexes a request may carry
Indexes == -1 .. NumOptions
\* worker goroutines serving requests
Procs == {"r1", "r2"}
\* vote_count of today's user_daily_votes row when the behaviour starts (the
\* table is shared by both deployments): one below the cap, and at the cap
InitialCounts == {MaxDailyVotes - 1, MaxDailyVotes}

\* seconds the clock advances in one step
TickStep == DefaultRateWindow \div 2
\* redis.Nil: the key does not exist
Nil == -1
\* how a request reaches the limiter: with the user_id the auth middleware
\* resolved, or without one (GET with or without ?userId=, POST, other)
Callers == {"resolved", "get_query", "get_empty", "post", "other"}
\* the poll-statistics read route and the routes a request may name
StatsRoute == "/api/polls/:id/stats"
Paths == {"/api/polls", StatsRoute}
NoResponse == [status |-> "none", message |-> "", limit |-> Nil,
               remaining |-> Nil, reset |-> Nil]
\* redis.Nil for a poll:stats key

\* domain.PollStats of no poll
NoStats == [PollID |-> "p0", Votes |-> <<>>]

\* json.Marshal of a domain.PollStats: the fields under their json tags
Marshal(stats) ==
  [pollId |-> stats.PollID,
   votes |-> [i \in DOMAIN stats.Votes |->
                [option |-> stats.Votes[i].Option,
                 count |-> stats.Votes[i].Count]]]

\* json.Unmarshal that does not fill Count
Unmarshal_DropsCount(data) ==
  [PollID |-> data.pollId,
   Votes |-> [i \in DOMAIN data.votes |->
                [Option |-> data.votes[i].option,
                 Count |-> 0]]]

\* json.Unmarshal into a domain.PollStats
Unmarshal(data) ==
  [PollID |-> data.pollId,
   Votes |-> [i \in DOMAIN data.votes |->
                [Option |-> data.votes[i].option,
                 Count |-> data.votes[i].count]]]

\* redis.Nil for key poll:stats:<poll>; asOf, pre and src are history of an
\* entry: the number of commits its value was computed after, whether an
\* invalidation of the poll completed between its computation and its
\* write, and the value the call that wrote it returned
Miss == [hit |-> FALSE, data |-> Marshal(NoStats), asOf |-> 0, pre |-> FALSE,
         src |-> NoStats]
NoVote == [id |-> 0, poll |-> "p0", user |-> "nobody",
           option |-> <<"p0", -1>>]
FactTypes == {"poll.voted", "poll.vote.updated", "poll.vote.deleted",
              "poll.skipped"}

VARIABLES
  impl,        \* which repository is wired behind domain.Repository
  votes,       \* rows of table votes
  nextId,      \* stands for uuid.New(): the next fresh vote id
  dailyVotes,  \* vote_count of (user, today) in user_daily_votes; 0 = no row
  statsCache,  \* redis key poll:stats:<poll>
  published,   \* number of facts handed to the publisher, per fact type
  call,        \* per worker: the request it serves and its local variables
  calls,       \* number of calls started so far
  castToday,   \* history: VoteOnPoll calls of a user that returned success today
  okVotes,     \* history: the votes whose VoteOnPoll returned success
  deletedIds,  \* history: ids of the rows removed from table votes
  skips,       \* rows of table skips
  cfaults,     \* number of cache and publisher calls that failed so far
  commits,     \* history: number of committed changes of table votes
  rlCount,     \* redis key rate_limit:<user>:<path>:count (no expiry)
  rlWindow,    \* redis key rate_limit:<user>:<path>:window
  rlWindowExp, \* the time the window key expires
  now,         \* time.Now().Unix()
  rlLast,      \* the response of the sustained limiter to the last request
  requests,    \* number of requests that reached the counters so far
  faults,      \* number of counter-store calls that failed so far
  gWindow,     \* history: start of the rate window the last keyed request fell in
  gSeen,       \* history: keyed requests received in that window
  gReset,      \* history: that window was opened by a reset of an older one
  req,         \* per worker: the request passing the limiters and its locals
  blCount,     \* redis key burst_limit:<user>:<path>
  blExp,       \* the time that key expires; Nil = no expiry set
  admits,      \* number of requests that entered the limiters so far
  gAdmitted,   \* history: requests the sustained limiter passed on in this window
  gArrived,    \* history: counted requests that reached the burst key in its life
  gPassed,     \* history: requests the burst limiter passed on in that life
  polls,       \* rows of table polls, each with its poll_tags
  pollOptions, \* rows of table poll_options of the polls created here
  pollFacts,   \* the poll.created facts handed to the publisher, in order
  pcall,       \* per worker: the CreatePoll or feed request it serves
  pcalls,      \* number of such requests started so far
  sentFacts,   \* the routing keys handed to exchange vote, in order
  voteEvents,  \* queue vote_events: the numbers of the facts waiting in it
  unroutable,  \* the facts the exchange found no bound queue for
  acked,       \* the facts the consumer has acknowledged
  pollCache,      \* redis keys poll:<id> of the polls created here
  pollStatsCache, \* redis keys poll:stats:<id> of those polls
  ballots,        \* rows of table votes that name a poll created here
  vcall           \* per worker: the vote or statistics request it serves

sideVars == <<skips, cfaults, commits>>
ledgerVars == <<impl, votes, nextId, dailyVotes, statsCache, published, call,
                calls, castToday, okVotes, deletedIds, sideVars>>
rateVars == <<rlCount, rlWindow, rlWindowExp, now, rlLast, requests, faults,
              gWindow, gSeen, gReset>>
burstVars == <<req, blCount, blExp, admits, gAdmitted, gArrived, gPassed>>
limiterVars == <<rateVars, burstVars>>
pollVars == <<polls, pollOptions, pollFacts, pcall, pcalls>>
busVars == <<sentFacts, voteEvents, unroutable, acked>>
ballotVars == <<pollCache, pollStatsCache, ballots, vcall>>
vars == <<impl, votes, nextId, dailyVotes, statsCache, published, call,
          calls, castToday, okVotes, deletedIds, skips, cfaults, commits,
          rlCount, rlWindow,
          rlWindowExp, now, rlLast, requests, faults, gWindow, gSeen,
          gReset, req, blCount, blExp, admits, gAdmitted, gArrived, gPassed,
          polls, pollOptions, pollFacts, pcall, pcalls,
          sentFacts, voteEvents, unroutable, acked,
          pollCache, pollStatsCache, ballots, vcall>>

\* ------------------------------------------------------------ the ledger

Idle == [op |-> "none", pc |-> "idle", user |-> "nobody", poll |-> "p0",
         idx |-> 0, vid |-> 0, result |-> "none", count |-> 0,
         created |-> 0, fault |-> FALSE, got |-> NoVote,
         stats |-> NoStats, dup |-> FALSE, bumped |-> FALSE,
         startCount |-> 0, priorId |-> 0, afterOk |-> FALSE,
         priorOk |-> FALSE, cached |-> FALSE, asOf |-> 0, pre |-> FALSE,
         src |-> NoStats, fresh |-> NoStats, mutAt |-> 0, cfail |-> FALSE,
         tag |-> "", page |-> 1, limit |-> 1, total |-> 0, feed |-> <<>>]

\* poll.Options[i].ID
OptionID(p, i) == <<p, i>>

\* SELECT EXISTS (SELECT 1 FROM votes WHERE poll_id = $1 AND user_id = $2)
HasVoted(p, u) == \E v \in votes : v.poll = p /\ v.user = u

\* the table without its UNIQUE(poll_id, user_id) constraint
UniqueViolation_Off(p, u) == FALSE

\* UNIQUE(poll_id, user_id) of table votes: would the insert raise 23505
UniqueViolation(p, u) == \E v \in votes : v.poll = p /\ v.user = u

\* CreateVote without the translation of pq error 23505
DuplicateError_Raw(i) == "InternalFailure"

\* what CreateVote returns for pq error 23505: the storage repository
\* translates it, the legacy one returns the driver's error as it is
DuplicateError(i) == IF i = "storage" THEN "ErrAlreadyVoted" ELSE "InternalFailure"

\* the id of the vote of (p, u), 0 when there is none
VoteIdOf(p, u) ==
  IF \E v \in votes : v.poll = p /\ v.user = u
  THEN (CHOOSE v \in votes : v.poll = p /\ v.user = u).id
  ELSE 0

\* SELECT vote_count FROM user_daily_votes ...; sql.ErrNoRows gives 0
GetUserDailyVoteCount(u) == dailyVotes[u]

Finish(c, res) == [call[c] EXCEPT !.pc = "done", !.result = res]

\* the daily quota looked at before the option range
VoteOnPoll_Begin_QuotaFirst(c, u, p, i) ==
  /\ call[c].pc \in {"idle", "done"}
  /\ calls < MaxCalls
  /\ calls' = calls + 1
  /\ LET r == [Idle EXCEPT !.op = "vote", !.user = u, !.poll = p, !.idx = i,
                           !.startCount = dailyVotes[u],
                           !.priorId = VoteIdOf(p, u),
                           !.afterOk = \E o \in okVotes :
                                          o.poll = p /\ o.user = u,
                           !.priorOk = \E o \in okVotes :
                                          /\ o.poll = p /\ o.user = u
                                          /\ o.id \notin deletedIds]
     IN call' = [call EXCEPT ![c] =
          IF HasVoted(p, u)
          THEN [r EXCEPT !.pc = "done", !.result = "ErrAlreadyVoted"]
          ELSE IF p \notin Polls
          THEN [r EXCEPT !.pc = "done", !.result = "ErrNotFound"]
          ELSE IF dailyVotes[u] >= MaxDailyVotes
          THEN [r EXCEPT !.pc = "done",
                         !.result = "ErrDailyVoteLimitExceeded"]
          ELSE IF i < 0 \/ i >= NumOptions
          THEN [r EXCEPT !.pc = "done", !.result = "ErrInvalidOption"]
          ELSE [r EXCEPT !.pc = "vCount"]]
  /\ UNCHANGED <<impl, votes, nextId, dailyVotes, statsCache, published,
                 castToday, okVotes, deletedIds>>
  /\ UNCHANGED <<limiterVars, pollVars, busVars, ballotVars>>
  /\ UNCHANGED sideVars

\* the range check with > in place of >=
VoteOnPoll_Begin_OffByOne(c, u, p, i) ==
  /\ call[c].pc \in {"idle", "done"}
  /\ calls < MaxCalls
  /\ calls' = calls + 1
  /\ LET r == [Idle EXCEPT !.op = "vote", !.user = u, !.poll = p, !.idx = i,
                           !.startCount = dailyVotes[u],
                           !.priorId = VoteIdOf(p, u),
                           !.afterOk = \E o \in okVotes :
                                          o.poll = p /\ o.user = u,
                           !.priorOk = \E o \in okVotes :
                                          /\ o.poll = p /\ o.user = u
                                          /\ o.id \notin deletedIds]
     IN call' = [call EXCEPT ![c] =
          IF HasVoted(p, u)
          THEN [r EXCEPT !.pc = "done", !.result = "ErrAlreadyVoted"]
          ELSE IF p \notin Polls
          THEN [r EXCEPT !.pc = "done", !.result = "ErrNotFound"]
          ELSE IF i < 0 \/ i > NumOptions
          THEN [r EXCEPT !.pc = "done", !.result = "ErrInvalidOption"]
          ELSE [r EXCEPT !.pc = "vCount"]]
  /\ UNCHANGED <<impl, votes, nextId, dailyVotes, statsCache, published,
                 castToday, okVotes, deletedIds>>
  /\ UNCHANGED <<limiterVars, pollVars, busVars, ballotVars>>
  /\ UNCHANGED sideVars

\* service.VoteOnPoll, lines 137-153: the existence check, the poll lookup
\* (polls and their options never change) and the range check
VoteOnPoll_Begin(c, u, p, i) ==
  /\ call[c].pc \in {"idle", "done"}
  /\ calls < MaxCalls
  /\ calls' = calls + 1
  /\ LET r == [Idle EXCEPT !.op = "vote", !.user = u, !.poll = p, !.idx = i,
                           !.startCount = dailyVotes[u],
                           !.priorId = VoteIdOf(p, u),
                           !.afterOk = \E o \in okVotes :
                                          o.poll = p /\ o.user = u,
                           !.priorOk = \E o \in okVotes :
                                          /\ o.poll = p /\ o.user = u
                                          /\ o.id \notin deletedIds]
     IN call' = [call EXCEPT ![c] =
          IF HasVoted(p, u)
          THEN [r EXCEPT !.pc = "done", !.result = "ErrAlreadyVoted"]
          ELSE IF p \notin Polls
          THEN [r EXCEPT !.pc = "done", !.result = "ErrNotFound"]
          ELSE IF i < 0 \/ i >= NumOptions
          THEN [r EXCEPT !.pc = "done", !.result = "ErrInvalidOption"]
          ELSE [r EXCEPT !.pc = "vCount"]]
  /\ UNCHANGED <<impl, votes, nextId, dailyVotes, statsCache, published,
                 castToday, okVotes, deletedIds>>
  /\ UNCHANGED <<limiterVars, pollVars, busVars, ballotVars>>
  /\ UNCHANGED sideVars

\* the quota check with > in place of >=
VoteOnPoll_GetCount_OffByOne(c) ==
  /\ call[c].pc = "vCount"
  /\ LET voteCount == dailyVotes[call[c].user]
     IN call' = [call EXCEPT ![c] =
          IF voteCount > MaxDailyVotes
          THEN [call[c] EXCEPT !.pc = "done", !.count = voteCount,
                               !.result = "ErrDailyVoteLimitExceeded"]
          ELSE [call[c] EXCEPT !.pc = "vCreate", !.count = voteCount]]
  /\ UNCHANGED <<impl, votes, nextId, dailyVotes, statsCache, published,
                 calls, castToday, okVotes, deletedIds>>
  /\ UNCHANGED <<limiterVars, pollVars, busVars, ballotVars>>
  /\ UNCHANGED sideVars

\* service.VoteOnPoll, lines 155-162
VoteOnPoll_GetCount(c) ==
  /\ call[c].pc = "vCount"
  /\ LET voteCount == GetUserDailyVoteCount(call[c].user)
     IN call' = [call EXCEPT ![c] =
          IF voteCount >= MaxDailyVotes
          THEN [call[c] EXCEPT !.pc = "done", !.count = voteCount,
                               !.result = "ErrDailyVoteLimitExceeded"]
          ELSE [call[c] EXCEPT !.pc = "vCreate", !.count = voteCount]]
  /\ UNCHANGED <<impl, votes, nextId, dailyVotes, statsCache, published,
                 calls, castToday, okVotes, deletedIds>>
  /\ UNCHANGED <<limiterVars, pollVars, busVars, ballotVars>>
  /\ UNCHANGED sideVars

\* CreateVote that drops the error of a failed INSERT and goes on
CreateVote_Insert_IgnoresError(c, fail) ==
  /\ call[c].pc = "vCreate"
  /\ LET u == call[c].user
         p == call[c].poll
     IN IF fail
        THEN /\ call' = [call EXCEPT ![c] =
                  [call[c] EXCEPT !.pc = "vInvalidate"]]
             /\ UNCHANGED <<votes, nextId, commits>>
        ELSE IF UniqueViolation(p, u)
        THEN /\ call' = [call EXCEPT ![c] =
                  [call[c] EXCEPT !.pc = "done", !.dup = TRUE,
                                  !.result = DuplicateError(impl)]]
             /\ UNCHANGED <<votes, nextId, commits>>
        ELSE /\ votes' = votes \cup
                  {[id |-> nextId, poll |-> p, user |-> u,
                    option |-> OptionID(p, call[c].idx)]}
             /\ nextId' = nextId + 1
             /\ commits' = commits + 1
             /\ call' = [call EXCEPT ![c] =
                  [call[c] EXCEPT !.created = nextId,
                     !.mutAt = commits + 1,
                     !.pc = IF impl = "storage" THEN "vInvalidate"
                                                ELSE "vIncrement"]]
  /\ UNCHANGED <<impl, dailyVotes, statsCache, published, calls, castToday,
                 okVotes, deletedIds>>
  /\ UNCHANGED <<limiterVars, pollVars, busVars, ballotVars>>
  /\ UNCHANGED <<skips, cfaults>>

\* Repository.CreateVote: the INSERT INTO votes statement; a failed BeginTxx
\* of the legacy WithTransaction ends the call the same way
CreateVote_Insert(c, fail) ==
  /\ call[c].pc = "vCreate"
  /\ LET u == call[c].user
         p == call[c].poll
     IN IF fail
        THEN /\ call' = [call EXCEPT ![c] =
                  [call[c] EXCEPT !.pc = "done", !.fault = TRUE,
                                  !.result = "InternalFailure"]]
             /\ UNCHANGED <<votes, nextId, commits>>
        ELSE IF UniqueViolation(p, u)
        THEN /\ call' = [call EXCEPT ![c] =
                  [call[c] EXCEPT !.pc = "done", !.dup = TRUE,
                                  !.result = DuplicateError(impl)]]
             /\ UNCHANGED <<votes, nextId, commits>>
        ELSE /\ votes' = votes \cup
                  {[id |-> nextId, poll |-> p, user |-> u,
                    option |-> OptionID(p, call[c].idx)]}
             /\ nextId' = nextId + 1
             /\ commits' = commits + 1
             /\ call' = [call EXCEPT ![c] =
                  [call[c] EXCEPT !.created = nextId,
                     !.mutAt = commits + 1,
                     !.pc = IF impl = "storage" THEN "vInvalidate"
                                                ELSE "vIncrement"]]
  /\ UNCHANGED <<impl, dailyVotes, statsCache, published, calls, castToday,
                 okVotes, deletedIds>>
  /\ UNCHANGED <<limiterVars, pollVars, busVars, ballotVars>>
  /\ UNCHANGED <<skips, cfaults>>

\* internal/postgres Repository.CreateVote, lines 239-248, and the
\* tx.Commit() of WithTransaction.  Both statements run on r.db, outside the
\* transaction, so each is committed on its own and the deferred Rollback
\* undoes nothing.
CreateVote_Increment(c, outcome) ==
  /\ call[c].pc = "vIncrement"
  /\ IF outcome = "stmt_failed"
     THEN /\ call' = [call EXCEPT ![c] =
               [call[c] EXCEPT !.pc = "done", !.fault = TRUE,
                               !.result = "InternalFailure"]]
          /\ UNCHANGED dailyVotes
     ELSE /\ dailyVotes' = [dailyVotes EXCEPT ![call[c].user] = @ + 1]
          /\ call' = [call EXCEPT ![c] =
               IF outcome = "commit_failed"
               THEN [call[c] EXCEPT !.pc = "done", !.fault = TRUE,
                                    !.bumped = TRUE,
                                    !.result = "InternalFailure"]
               ELSE [call[c] EXCEPT !.pc = "vInvalidate", !.bumped = TRUE]]
  /\ UNCHANGED <<impl, votes, nextId, statsCache, published, calls,
                 castToday, okVotes, deletedIds>>
  /\ UNCHANGED <<limiterVars, pollVars, busVars, ballotVars>>
  /\ UNCHANGED sideVars

\* a call to the cache or to the publisher may fail while failures remain
MayFail(fail) == fail => cfaults < MaxFaults

\* the workers as an invalidation of the stats entry of p leaves them, at
\* being the commit the invalidation follows: a value computed from the store
\* before that commit and not yet written to the cache was computed before
\* the invalidation
MarkPre(p, at) ==
  [x \in Procs |->
     IF /\ call[x].op = "stats" /\ call[x].poll = p /\ call[x].pc = "sSet"
        /\ call[x].asOf < at
     THEN [call[x] EXCEPT !.pre = TRUE]
     ELSE call[x]]

\* service.VoteOnPoll, lines 176-181: InvalidatePollStatsCache, its error
\* only logged; the legacy repository's method does nothing
VoteOnPoll_Invalidate(c, fail) ==
  /\ call[c].pc = "vInvalidate"
  /\ MayFail(fail)
  /\ fail => impl = "storage"
  /\ cfaults' = IF fail THEN cfaults + 1 ELSE cfaults
  /\ statsCache' = IF impl = "storage" /\ ~fail
                   THEN [statsCache EXCEPT ![call[c].poll] = Miss]
                   ELSE statsCache
  /\ LET others == IF impl = "storage" /\ ~fail THEN MarkPre(call[c].poll, call[c].mutAt)
                    ELSE call
     IN call' = [others EXCEPT ![c] =
                   [call[c] EXCEPT !.pc = "vPublish",
                                   !.cfail = call[c].cfail \/ fail]]
  /\ UNCHANGED <<impl, votes, nextId, dailyVotes, published, calls,
                 castToday, okVotes, deletedIds>>
  /\ UNCHANGED <<limiterVars, pollVars, busVars, ballotVars>>
  /\ UNCHANGED <<skips, commits>>

\* a failed publish returned to the caller as an error
VoteOnPoll_Publish_Surfaces(c, fail) ==
  /\ call[c].pc = "vPublish"
  /\ MayFail(fail)
  /\ cfaults' = IF fail THEN cfaults + 1 ELSE cfaults
  /\ published' = IF fail THEN published
                  ELSE [published EXCEPT !["poll.voted"] = @ + 1]
  /\ call' = [call EXCEPT ![c] =
       [call[c] EXCEPT !.pc = "done",
                       !.result = IF fail THEN "InternalFailure" ELSE "ok",
                       !.cfail = call[c].cfail \/ fail]]
  /\ castToday' = [castToday EXCEPT ![call[c].user] = @ + 1]
  /\ okVotes' = okVotes \cup {[id |-> call[c].created, poll |-> call[c].poll,
                               user |-> call[c].user]}
  /\ UNCHANGED <<impl, votes, nextId, dailyVotes, statsCache, calls,
                 deletedIds>>
  /\ UNCHANGED <<limiterVars, pollVars, busVars, ballotVars>>
  /\ UNCHANGED <<skips, commits>>

\* service.VoteOnPoll, lines 183-191: PublishPollVoted, its error only logged
VoteOnPoll_Publish(c, fail) ==
  /\ call[c].pc = "vPublish"
  /\ MayFail(fail)
  /\ cfaults' = IF fail THEN cfaults + 1 ELSE cfaults
  /\ published' = IF fail THEN published
                  ELSE [published EXCEPT !["poll.voted"] = @ + 1]
  /\ call' = [call EXCEPT ![c] =
       [call[c] EXCEPT !.pc = "done", !.result = "ok",
                       !.cfail = call[c].cfail \/ fail]]
  /\ castToday' = [castToday EXCEPT ![call[c].user] = @ + 1]
  /\ okVotes' = okVotes \cup {[id |-> call[c].created, poll |-> call[c].poll,
                               user |-> call[c].user]}
  /\ UNCHANGED <<impl, votes, nextId, dailyVotes, statsCache, calls,
                 deletedIds>>
  /\ UNCHANGED <<limiterVars, pollVars, busVars, ballotVars>>
  /\ UNCHANGED <<skips, commits>>

\* SELECT ... FROM votes v WHERE v.id = $1; sql.ErrNoRows gives ErrNotFound
GetVoteByID(vid) ==
  IF \E v \in votes : v.id = vid
  THEN CHOOSE v \in votes : v.id = vid
  ELSE NoVote

\* service.DeleteVote, lines 241-249.  GetVoteByID of the legacy repository
\* returns (nil, nil), and vote.UserID then dereferences the nil pointer: the
\* request panics before it writes anything.
DeleteVote_Begin(c, vid, u) ==
  /\ call[c].pc \in {"idle", "done"}
  /\ calls < MaxCalls
  /\ calls' = calls + 1
  /\ LET vote == IF impl = "legacy" THEN NoVote ELSE GetVoteByID(vid)
         r == [Idle EXCEPT !.op = "delete", !.user = u, !.vid = vid,
                           !.got = vote, !.poll = vote.poll]
     IN call' = [call EXCEPT ![c] =
          IF impl = "legacy"
          THEN [r EXCEPT !.pc = "done", !.result = "Panic"]
          ELSE IF vote = NoVote
          THEN [r EXCEPT !.pc = "done", !.result = "ErrNotFound"]
          ELSE IF vote.user # u
          THEN [r EXCEPT !.pc = "done", !.result = "ErrUnauthorized"]
          ELSE [r EXCEPT !.pc = "dDelete"]]
  /\ UNCHANGED <<impl, votes, nextId, dailyVotes, statsCache, published,
                 castToday, okVotes, deletedIds>>
  /\ UNCHANGED <<limiterVars, pollVars, busVars, ballotVars>>
  /\ UNCHANGED sideVars

\* a delete that gives the quota unit of the vote back
DeleteVote_Delete_Refunds(c) ==
  /\ call[c].pc = "dDelete"
  /\ LET rows == {v \in votes : v.id = call[c].vid /\ v.user = call[c].user}
     IN /\ votes' = votes \ rows
        /\ deletedIds' = deletedIds \cup {v.id : v \in rows}
        /\ commits' = IF rows = {} THEN commits ELSE commits + 1
        /\ call' = [call EXCEPT ![c] =
             IF rows = {} THEN Finish(c, "ErrUnauthorized")
             ELSE [call[c] EXCEPT !.pc = "dPublish",
                                  !.mutAt = commits + 1]]
  /\ dailyVotes' = [dailyVotes EXCEPT ![call[c].user] =
                                     IF @ > 0 THEN @ - 1 ELSE 0]
  /\ UNCHANGED <<impl, nextId, statsCache, published, calls,
                 castToday, okVotes>>
  /\ UNCHANGED <<limiterVars, pollVars, busVars, ballotVars>>
  /\ UNCHANGED <<skips, cfaults>>

\* Repository.DeleteVote: DELETE FROM votes WHERE id = $1 AND user_id = $2
DeleteVote_Delete(c) ==
  /\ call[c].pc = "dDelete"
  /\ LET rows == {v \in votes : v.id = call[c].vid /\ v.user = call[c].user}
     IN /\ votes' = votes \ rows
        /\ deletedIds' = deletedIds \cup {v.id : v \in rows}
        /\ commits' = IF rows = {} THEN commits ELSE commits + 1
        /\ call' = [call EXCEPT ![c] =
             IF rows = {} THEN Finish(c, "ErrUnauthorized")
             ELSE [call[c] EXCEPT !.pc = "dPublish",
                                  !.mutAt = commits + 1]]
  /\ UNCHANGED <<impl, nextId, dailyVotes, statsCache, published, calls,
                 castToday, okVotes>>
  /\ UNCHANGED <<limiterVars, pollVars, busVars, ballotVars>>
  /\ UNCHANGED <<skips, cfaults>>

\* service.DeleteVote, lines 256-264: PublishVoteDeleted, its error only
\* logged; nothing on this path touches the stats entry of the poll
DeleteVote_Publish(c, fail) ==
  /\ call[c].pc = "dPublish"
  /\ MayFail(fail)
  /\ cfaults' = IF fail THEN cfaults + 1 ELSE cfaults
  /\ published' = IF fail THEN published
                  ELSE [published EXCEPT !["poll.vote.deleted"] = @ + 1]
  /\ call' = [call EXCEPT ![c] =
       [call[c] EXCEPT !.pc = "done", !.result = "ok",
                       !.cfail = call[c].cfail \/ fail]]
  /\ UNCHANGED <<impl, votes, nextId, dailyVotes, statsCache, calls,
                 castToday, okVotes, deletedIds>>
  /\ UNCHANGED <<limiterVars, pollVars, busVars, ballotVars>>
  /\ UNCHANGED <<skips, commits>>

\* the range check placed before the ownership check
UpdateVote_Begin_RangeFirst(c, vid, u, i) ==
  /\ call[c].pc \in {"idle", "done"}
  /\ calls < MaxCalls
  /\ calls' = calls + 1
  /\ LET vote == GetVoteByID(vid)
         r == [Idle EXCEPT !.op = "update", !.user = u, !.vid = vid,
                           !.idx = i, !.got = vote, !.poll = vote.poll]
     IN call' = [call EXCEPT ![c] =
          IF vote = NoVote
          THEN [r EXCEPT !.pc = "done", !.result = "ErrNotFound"]
          ELSE IF i < 0 \/ i >= NumOptions
          THEN [r EXCEPT !.pc = "done", !.result = "ErrInvalidOption"]
          ELSE IF vote.user # u
          THEN [r EXCEPT !.pc = "done", !.result = "ErrUnauthorized"]
          ELSE [r EXCEPT !.pc = "uGet"]]
  /\ UNCHANGED <<impl, votes, nextId, dailyVotes, statsCache, published,
                 castToday, okVotes, deletedIds>>
  /\ UNCHANGED <<limiterVars, pollVars, busVars, ballotVars>>
  /\ UNCHANGED sideVars

\* service.UpdateVote, lines 194-215
UpdateVote_Begin(c, vid, u, i) ==
  /\ call[c].pc \in {"idle", "done"}
  /\ calls < MaxCalls
  /\ calls' = calls + 1
  /\ LET vote == GetVoteByID(vid)
         r == [Idle EXCEPT !.op = "update", !.user = u, !.vid = vid,
                           !.idx = i, !.got = vote, !.poll = vote.poll]
     IN call' = [call EXCEPT ![c] =
          IF vote = NoVote
          THEN [r EXCEPT !.pc = "done", !.result = "ErrNotFound"]
          ELSE IF vote.user # u
          THEN [r EXCEPT !.pc = "done", !.result = "ErrUnauthorized"]
          ELSE IF i < 0 \/ i >= NumOptions
          THEN [r EXCEPT !.pc = "done", !.result = "ErrInvalidOption"]
          ELSE [r EXCEPT !.pc = "uGet"]]
  /\ UNCHANGED <<impl, votes, nextId, dailyVotes, statsCache, published,
                 castToday, okVotes, deletedIds>>
  /\ UNCHANGED <<limiterVars, pollVars, busVars, ballotVars>>
  /\ UNCHANGED sideVars

\* Repository.UpdateVote, lines 664-670
UpdateVote_Get(c) ==
  /\ call[c].pc = "uGet"
  /\ LET vote == GetVoteByID(call[c].vid)
     IN call' = [call EXCEPT ![c] =
          IF vote = NoVote THEN Finish(c, "ErrNotFound")
          ELSE IF vote.user # call[c].user THEN Finish(c, "ErrUnauthorized")
          ELSE [call[c] EXCEPT !.pc = "uVerify", !.got = vote]]
  /\ UNCHANGED <<impl, votes, nextId, dailyVotes, statsCache, published,
                 calls, castToday, okVotes, deletedIds>>
  /\ UNCHANGED <<limiterVars, pollVars, busVars, ballotVars>>
  /\ UNCHANGED sideVars

\* Repository.UpdateVote, lines 672-686: the option must belong to the poll
\* of the row the vote id names now
UpdateVote_Verify(c) ==
  /\ call[c].pc = "uVerify"
  /\ LET optionID == OptionID(call[c].poll, call[c].idx)
         exists == \E v \in votes :
                     /\ v.id = call[c].vid
                     /\ optionID[1] = v.poll
                     /\ optionID[2] \in 0 .. NumOptions - 1
     IN call' = [call EXCEPT ![c] =
          IF ~exists THEN Finish(c, "ErrInvalidOption")
          ELSE [call[c] EXCEPT !.pc = "uUpdate"]]
  /\ UNCHANGED <<impl, votes, nextId, dailyVotes, statsCache, published,
                 calls, castToday, okVotes, deletedIds>>
  /\ UNCHANGED <<limiterVars, pollVars, busVars, ballotVars>>
  /\ UNCHANGED sideVars

\* an update that writes the new row and keeps the old one
UpdateVote_Update_KeepsOld(c) ==
  /\ call[c].pc = "uUpdate"
  /\ LET rows == {v \in votes : v.id = call[c].vid /\ v.user = call[c].user}
         optionID == OptionID(call[c].poll, call[c].idx)
     IN /\ votes' = votes \cup
                      {[v EXCEPT !.option = optionID] : v \in rows}
        /\ commits' = IF rows = {} THEN commits ELSE commits + 1
        /\ call' = [call EXCEPT ![c] =
             IF rows = {} THEN Finish(c, "ErrNotFound")
             ELSE [call[c] EXCEPT !.pc = "uInvalidate",
                                  !.mutAt = commits + 1]]
  /\ UNCHANGED <<impl, nextId, dailyVotes, statsCache, published, calls,
                 castToday, okVotes, deletedIds>>
  /\ UNCHANGED <<limiterVars, pollVars, busVars, ballotVars>>
  /\ UNCHANGED <<skips, cfaults>>

\* Repository.UpdateVote, lines 688-704
UpdateVote_Update(c) ==
  /\ call[c].pc = "uUpdate"
  /\ LET rows == {v \in votes : v.id = call[c].vid /\ v.user = call[c].user}
         optionID == OptionID(call[c].poll, call[c].idx)
     IN /\ votes' = (votes \ rows) \cup
                      {[v EXCEPT !.option = optionID] : v \in rows}
        /\ commits' = IF rows = {} THEN commits ELSE commits + 1
        /\ call' = [call EXCEPT ![c] =
             IF rows = {} THEN Finish(c, "ErrNotFound")
             ELSE [call[c] EXCEPT !.pc = "uInvalidate",
                                  !.mutAt = commits + 1]]
  /\ UNCHANGED <<impl, nextId, dailyVotes, statsCache, published, calls,
                 castToday, okVotes, deletedIds>>
  /\ UNCHANGED <<limiterVars, pollVars, busVars, ballotVars>>
  /\ UNCHANGED <<skips, cfaults>>

\* Repository.UpdateVote, lines 706-713: InvalidatePollStatsCache, its error
\* only logged
UpdateVote_Invalidate(c, fail) ==
  /\ call[c].pc = "uInvalidate"
  /\ MayFail(fail)
  /\ cfaults' = IF fail THEN cfaults + 1 ELSE cfaults
  /\ statsCache' = IF fail THEN statsCache
                   ELSE [statsCache EXCEPT ![call[c].got.poll] = Miss]
  /\ LET others == IF fail THEN call ELSE MarkPre(call[c].got.poll, call[c].mutAt)
     IN call' = [others EXCEPT ![c] =
                   [call[c] EXCEPT !.pc = "uPublish",
                                   !.cfail = call[c].cfail \/ fail]]
  /\ UNCHANGED <<impl, votes, nextId, dailyVotes, published, calls,
                 castToday, okVotes, deletedIds>>
  /\ UNCHANGED <<limiterVars, pollVars, busVars, ballotVars>>
  /\ UNCHANGED <<skips, commits>>

\* service.UpdateVote, lines 222-238: PublishVoteUpdated, its error only
\* logged
UpdateVote_Publish(c, fail) ==
  /\ call[c].pc = "uPublish"
  /\ MayFail(fail)
  /\ cfaults' = IF fail THEN cfaults + 1 ELSE cfaults
  /\ published' = IF fail THEN published
                  ELSE [published EXCEPT !["poll.vote.updated"] = @ + 1]
  /\ call' = [call EXCEPT ![c] =
       [call[c] EXCEPT !.pc = "done", !.result = "ok",
                       !.cfail = call[c].cfail \/ fail]]
  /\ UNCHANGED <<impl, votes, nextId, dailyVotes, statsCache, calls,
                 castToday, okVotes, deletedIds>>
  /\ UNCHANGED <<limiterVars, pollVars, busVars, ballotVars>>
  /\ UNCHANGED <<skips, commits>>

\* Repository.GetPollStats: COUNT(v.id) per option of the poll, in the order
\* of the options; a poll without options gives an empty list
PollStats(p) ==
  [PollID |-> p,
   Votes |-> IF p \in Polls
             THEN [i \in 1 .. NumOptions |->
                     [Option |-> PollOptions[i],
                      Count |-> Cardinality({v \in votes :
                                   v.option = OptionID(p, i - 1)})]]
             ELSE <<>>]

\* service.GetPollStats, lines 116-120, with Repository.GetCachedPollStats:
\* an entry is returned as it is unmarshalled; redis.Nil and every other
\* error lead to the store.  The legacy repository always misses.
GetPollStats_Cached(c, p, fail) ==
  /\ call[c].pc \in {"idle", "done"}
  /\ calls < MaxCalls
  /\ MayFail(fail)
  /\ fail => impl = "storage"
  /\ calls' = calls + 1
  /\ cfaults' = IF fail THEN cfaults + 1 ELSE cfaults
  /\ LET r == [Idle EXCEPT !.op = "stats", !.poll = p, !.cfail = fail,
                           !.fresh = PollStats(p)]
         e == statsCache[p]
     IN call' = [call EXCEPT ![c] =
          IF impl = "storage" /\ ~fail /\ e.hit
          THEN [r EXCEPT !.pc = "done", !.result = "ok", !.cached = TRUE,
                         !.stats = Unmarshal(e.data), !.asOf = e.asOf,
                         !.pre = e.pre, !.src = e.src]
          ELSE [r EXCEPT !.pc = "sCompute"]]
  /\ UNCHANGED <<impl, votes, nextId, dailyVotes, statsCache, published,
                 castToday, okVotes, deletedIds>>
  /\ UNCHANGED <<limiterVars, pollVars, busVars, ballotVars>>
  /\ UNCHANGED <<skips, commits>>

\* service.GetPollStats, lines 122-125
GetPollStats_Compute(c) ==
  /\ call[c].pc = "sCompute"
  /\ call' = [call EXCEPT ![c] =
       [call[c] EXCEPT !.pc = "sSet", !.stats = PollStats(call[c].poll),
                       !.src = PollStats(call[c].poll), !.asOf = commits]]
  /\ UNCHANGED <<impl, votes, nextId, dailyVotes, statsCache, published,
                 calls, castToday, okVotes, deletedIds>>
  /\ UNCHANGED <<limiterVars, pollVars, busVars, ballotVars>>
  /\ UNCHANGED sideVars

\* service.GetPollStats, lines 127-134, with Repository.SetCachedPollStats:
\* the value is marshalled and stored, an error is only logged
GetPollStats_Set(c, fail) ==
  /\ call[c].pc = "sSet"
  /\ MayFail(fail)
  /\ fail => impl = "storage"
  /\ cfaults' = IF fail THEN cfaults + 1 ELSE cfaults
  /\ statsCache' = IF impl = "storage" /\ ~fail
                   THEN [statsCache EXCEPT ![call[c].poll] =
                           [hit |-> TRUE, data |-> Marshal(call[c].stats),
                            asOf |-> call[c].asOf, pre |-> call[c].pre,
                            src |-> call[c].stats]]
                   ELSE statsCache
  /\ call' = [call EXCEPT ![c] =
       [call[c] EXCEPT !.pc = "done", !.result = "ok",
                       !.cfail = call[c].cfail \/ fail]]
  /\ UNCHANGED <<impl, votes, nextId, dailyVotes, published, calls,
                 castToday, okVotes, deletedIds>>
  /\ UNCHANGED <<limiterVars, pollVars, busVars, ballotVars>>
  /\ UNCHANGED <<skips, commits>>

\* the 5 minutes an entry written by SetCachedPollStats lives have passed
StatsCache_Expire(p) ==
  /\ statsCache[p].hit
  /\ statsCache' = [statsCache EXCEPT ![p] = Miss]
  /\ UNCHANGED <<impl, votes, nextId, dailyVotes, published, call, calls,
                 castToday, okVotes, deletedIds>>
  /\ UNCHANGED <<limiterVars, pollVars, busVars, ballotVars>>
  /\ UNCHANGED sideVars

\* the table without its UNIQUE(poll_id, user_id) constraint
SkipUniqueViolation_Off(p, u) == FALSE

\* UNIQUE(poll_id, user_id) of table skips: would the insert raise 23505
SkipUniqueViolation(p, u) == \E k \in skips : k.poll = p /\ k.user = u

\* what CreateSkip returns for pq error 23505: the storage repository
\* translates it, the legacy one returns the driver's error as it is
SkipDuplicateError(i) ==
  IF i = "storage" THEN "ErrAlreadySkipped" ELSE "InternalFailure"

\* SELECT EXISTS (SELECT 1 FROM skips WHERE poll_id = $1 AND user_id = $2)
HasSkipped(p, u) == \E k \in skips : k.poll = p /\ k.user = u

\* the id of the skip of (p, u), 0 when there is none
SkipIdOf(p, u) ==
  IF \E k \in skips : k.poll = p /\ k.user = u
  THEN (CHOOSE k \in skips : k.poll = p /\ k.user = u).id
  ELSE 0

\* service.SkipPoll, lines 268-274; priorOk is history: an earlier SkipPoll
\* of the pair has returned success (acked marks the row such a call wrote)
SkipPoll_Begin(c, u, p) ==
  /\ call[c].pc \in {"idle", "done"}
  /\ calls < MaxCalls
  /\ calls' = calls + 1
  /\ LET r == [Idle EXCEPT !.op = "skip", !.user = u, !.poll = p,
                           !.startCount = dailyVotes[u],
                           !.priorId = SkipIdOf(p, u),
                           !.priorOk = \E k \in skips :
                               k.poll = p /\ k.user = u /\ k.acked]
     IN call' = [call EXCEPT ![c] =
          IF HasSkipped(p, u)
          THEN [r EXCEPT !.pc = "done", !.result = "ErrAlreadySkipped"]
          ELSE [r EXCEPT !.pc = "kCreate"]]
  /\ UNCHANGED <<impl, votes, nextId, dailyVotes, statsCache, published,
                 castToday, okVotes, deletedIds>>
  /\ UNCHANGED <<limiterVars, pollVars, busVars, ballotVars>>
  /\ UNCHANGED sideVars

\* CreateSkip that also counts the skip against the daily quota
SkipPoll_Create_Counts(c, fail) ==
  /\ call[c].pc = "kCreate"
  /\ LET u == call[c].user
         p == call[c].poll
     IN IF fail \/ p \notin Polls
        THEN /\ call' = [call EXCEPT ![c] =
                  [call[c] EXCEPT !.pc = "done", !.fault = TRUE,
                                  !.result = "InternalFailure"]]
             /\ UNCHANGED skips
        ELSE IF SkipUniqueViolation(p, u)
        THEN /\ call' = [call EXCEPT ![c] =
                  [call[c] EXCEPT !.pc = "done", !.dup = TRUE,
                                  !.result = SkipDuplicateError(impl)]]
             /\ UNCHANGED skips
        ELSE /\ skips' = skips \cup
                  {[id |-> Cardinality(skips) + 1, poll |-> p, user |-> u,
                    acked |-> FALSE]}
             /\ call' = [call EXCEPT ![c] =
                  [call[c] EXCEPT !.created = Cardinality(skips) + 1,
                                  !.pc = "kPublish"]]
  /\ dailyVotes' = [dailyVotes EXCEPT ![call[c].user] = @ + 1]
  /\ UNCHANGED <<impl, votes, nextId, statsCache, published, calls,
                 castToday, okVotes, deletedIds>>
  /\ UNCHANGED <<limiterVars, pollVars, busVars, ballotVars>>
  /\ UNCHANGED <<cfaults, commits>>

\* Repository.CreateSkip: INSERT INTO skips; poll_id REFERENCES polls(id)
SkipPoll_Create(c, fail) ==
  /\ call[c].pc = "kCreate"
  /\ LET u == call[c].user
         p == call[c].poll
     IN IF fail \/ p \notin Polls
        THEN /\ call' = [call EXCEPT ![c] =
                  [call[c] EXCEPT !.pc = "done", !.fault = TRUE,
                                  !.result = "InternalFailure"]]
             /\ UNCHANGED skips
        ELSE IF SkipUniqueViolation(p, u)
        THEN /\ call' = [call EXCEPT ![c] =
                  [call[c] EXCEPT !.pc = "done", !.dup = TRUE,
                                  !.result = SkipDuplicateError(impl)]]
             /\ UNCHANGED skips
        ELSE /\ skips' = skips \cup
                  {[id |-> Cardinality(skips) + 1, poll |-> p, user |-> u,
                    acked |-> FALSE]}
             /\ call' = [call EXCEPT ![c] =
                  [call[c] EXCEPT !.created = Cardinality(skips) + 1,
                                  !.pc = "kPublish"]]
  /\ UNCHANGED <<impl, votes, nextId, dailyVotes, statsCache, published, calls,
                 castToday, okVotes, deletedIds>>
  /\ UNCHANGED <<limiterVars, pollVars, busVars, ballotVars>>
  /\ UNCHANGED <<cfaults, commits>>

\* a publisher call that hands the skipped fact over twice
SkipPoll_Publish_Twice(c, fail) ==
  /\ call[c].pc = "kPublish"
  /\ MayFail(fail)
  /\ cfaults' = IF fail THEN cfaults + 1 ELSE cfaults
  /\ published' = IF fail THEN published
                  ELSE [published EXCEPT !["poll.skipped"] = @ + 2]
  /\ call' = [call EXCEPT ![c] =
       [call[c] EXCEPT !.pc = "done", !.result = "ok",
                       !.cfail = call[c].cfail \/ fail]]
  /\ skips' = {IF k.id = call[c].created THEN [k EXCEPT !.acked = TRUE]
                ELSE k : k \in skips}
  /\ UNCHANGED <<impl, votes, nextId, dailyVotes, statsCache, calls,
                 castToday, okVotes, deletedIds>>
  /\ UNCHANGED <<limiterVars, pollVars, busVars, ballotVars>>
  /\ UNCHANGED commits

\* service.SkipPoll, lines 288-296: PublishPollSkipped, its error only logged
SkipPoll_Publish(c, fail) ==
  /\ call[c].pc = "kPublish"
  /\ MayFail(fail)
  /\ cfaults' = IF fail THEN cfaults + 1 ELSE cfaults
  /\ published' = IF fail THEN published
                  ELSE [published EXCEPT !["poll.skipped"] = @ + 1]
  /\ call' = [call EXCEPT ![c] =
       [call[c] EXCEPT !.pc = "done", !.result = "ok",
                       !.cfail = call[c].cfail \/ fail]]
  /\ skips' = {IF k.id = call[c].created THEN [k EXCEPT !.acked = TRUE]
                ELSE k : k \in skips}
  /\ UNCHANGED <<impl, votes, nextId, dailyVotes, statsCache, calls,
                 castToday, okVotes, deletedIds>>
  /\ UNCHANGED <<limiterVars, pollVars, busVars, ballotVars>>
  /\ UNCHANGED commits

InitLedger ==
  /\ impl = "storage"
  /\ votes = {}
  /\ nextId = 1
  /\ \E n \in InitialCounts : dailyVotes = [u \in Users |-> n]
  /\ statsCache = [p \in PollIds |-> Miss]
  /\ published = [t \in FactTypes |-> 0]
  /\ call = [c \in Procs |-> Idle]
  /\ calls = 0
  /\ castToday = dailyVotes
  /\ okVotes = {}
  /\ deletedIds = {}
  /\ skips = {}
  /\ cfaults = 0
  /\ commits = 0

\* a worker that serves no request
NoRequest == [pc |-> "idle", path |-> "", caller |-> "", count |-> 0,
              window |-> 0, status |-> "none", message |-> "",
              by |-> "none", handler |-> FALSE, touched |-> FALSE,
              fault |-> "none", ord |-> 0, key |-> <<>>, bkey |-> <<>>,
              consumed |-> FALSE]

\* ------------------------------------------------------------ poll creation

\* a nil *domain.CreatePollRequest
NilRequest == [nil |-> TRUE, title |-> "", options |-> <<>>, tags |-> <<>>]

\* the requests CreatePoll is called with
PollRequests ==
  {NilRequest} \cup
  [nil : {FALSE}, title : {"", "t"},
   options : {<<>>, <<"x">>, <<"x", "y">>, <<"y", "x", "z">>},
   tags : {<<>>, <<"g">>, <<"g", "g">>}]

NoPoll == [ID |-> 0, Title |-> "", Options |-> <<>>, Tags |-> <<>>]

PollIdleCall == [op |-> "none", pc |-> "idle", req |-> NilRequest,
                 poll |-> NoPoll, result |-> "none", id |-> 0,
                 fault |-> FALSE, cfail |-> FALSE]

\* the poll ids a request may name
PollIDs == 1 .. MaxCalls

\* redis.Nil
NoEntry == [hit |-> FALSE, data |-> <<>>]

BallotIdleCall == [op |-> "none", pc |-> "idle", poll |-> 0,
                   user |-> "nobody", idx |-> 0, src |-> "none",
                   optionID |-> 0, result |-> "none", stats |-> NoStats]

PollIdle ==
  /\ pollCache = [p \in PollIDs |-> NoEntry]
  /\ pollStatsCache = [p \in PollIDs |-> NoEntry]
  /\ ballots = {}
  /\ vcall = [c \in Procs |-> BallotIdleCall]
  /\ polls = {}
  /\ pollOptions = {}
  /\ pollFacts = <<>>
  /\ pcall = [c \in Procs |-> PollIdleCall]
  /\ pcalls = 0
  /\ sentFacts = <<>>
  /\ voteEvents = <<>>
  /\ unroutable = {}
  /\ acked = {}

\* mutation of ValidPollRequest: one option is enough
ValidPollRequest_OneOption(r) ==
  /\ ~r.nil
  /\ r.title # ""
  /\ ~(Len(r.options) < 1)
  /\ Len(r.tags) # 0

\* the four checks service.CreatePoll makes before it builds the poll
ValidPollRequest(r) ==
  /\ ~r.nil
  /\ r.title # ""
  /\ ~(Len(r.options) < 2)
  /\ Len(r.tags) # 0

\* service.CreatePoll up to the repository call: validate, then build the
\* poll with a fresh id and one option per request entry, OptionIndex: i
CreatePoll_Begin(c, r) ==
  /\ pcall[c].pc = "idle"
  /\ pcalls < MaxCalls
  /\ pcalls' = pcalls + 1
  /\ IF ~ValidPollRequest(r)
       THEN pcall' = [pcall EXCEPT ![c] =
              [PollIdleCall EXCEPT !.op = "create", !.req = r,
                                   !.result = "ErrInvalidInput", !.id = 0]]
       ELSE pcall' = [pcall EXCEPT ![c] =
              [PollIdleCall EXCEPT
                 !.op = "create", !.req = r, !.pc = "pInsert",
                 !.poll = [ID |-> pcalls + 1, Title |-> r.title,
                           Options |-> [i \in 1 .. Len(r.options) |->
                                          [OptionText |-> r.options[i],
                                           OptionIndex |-> i - 1]],
                           Tags |-> r.tags]]]
  /\ UNCHANGED <<polls, pollOptions, pollFacts>>
  /\ UNCHANGED <<ledgerVars, limiterVars, busVars, ballotVars>>

\* poll_tags has PRIMARY KEY (poll_id, tag): a repeated tag is refused
RepeatsTag(tags) ==
  \E i, j \in 1 .. Len(tags) : i # j /\ tags[i] = tags[j]

\* uuid.New() for the i-th option of a poll: distinct from every other id,
\* and unrelated to the option's index
NewOptionID(pollID, i) == 10 * pollID + (9 - i)

\* the created_at values the options of one poll can get. The storage
\* repository reads time.Now() before each INSERT, so that a round trip to
\* the database lies between two readings and they strictly increase; the
\* service reads it in a loop without I/O for the options the legacy
\* repository inserts, so that two of those readings can be equal.
Stamps(n) ==
  {s \in [1 .. n -> 1 .. MaxStamp] :
     \A i, j \in 1 .. n :
       i < j => IF impl = "legacy" THEN s[i] <= s[j] ELSE s[i] < s[j]}

\* the clock advances by one unit between two readings
EveryTick(n) == [i \in 1 .. n |-> i]

\* the poll_options rows one CreatePoll transaction inserts: the storage
\* repository numbers the request's option texts by the loop index, the
\* legacy one inserts the options the service built
OptionRows(poll, options, stamps) ==
  IF impl = "legacy"
    THEN {[id |-> NewOptionID(poll.ID, i), poll |-> poll.ID,
           text |-> poll.Options[i].OptionText,
           index |-> poll.Options[i].OptionIndex,
           createdAt |-> stamps[i]] :
             i \in 1 .. Len(poll.Options)}
    ELSE {[id |-> NewOptionID(poll.ID, i), poll |-> poll.ID,
           text |-> options[i], index |-> i - 1,
           createdAt |-> stamps[i]] :
             i \in 1 .. Len(options)}

\* Repository.CreatePoll: one transaction inserts the poll, its options and
\* its tags; any error rolls everything back and is returned wrapped. The
\* storage repository also appends every inserted option to poll.Options.
CreatePoll_Insert(c, fail, stamps) ==
  /\ pcall[c].pc = "pInsert"
  /\ stamps \in Stamps(Len(pcall[c].req.options))
  /\ LET poll == pcall[c].poll
         r == pcall[c].req
     IN IF fail \/ RepeatsTag(r.tags)
          THEN /\ pcall' = [pcall EXCEPT ![c].pc = "idle",
                                         ![c].result = "InternalFailure",
                                         ![c].id = 0,
                                         ![c].fault = TRUE]
               /\ UNCHANGED <<polls, pollOptions>>
          ELSE /\ polls' = polls \cup
                     {[id |-> poll.ID, title |-> poll.Title,
                       tags |-> {r.tags[i] : i \in 1 .. Len(r.tags)}]}
               /\ pollOptions' = pollOptions \cup OptionRows(poll, r.options, stamps)
               /\ pcall' = [pcall EXCEPT
                    ![c].pc = "pPublish",
                    ![c].poll.Options =
                       IF impl = "legacy" THEN poll.Options
                       ELSE poll.Options \o
                            [i \in 1 .. Len(r.options) |->
                               [OptionText |-> r.options[i],
                                OptionIndex |-> i - 1]]]
  /\ UNCHANGED <<pollFacts, pcalls>>
  /\ UNCHANGED <<ledgerVars, limiterVars, busVars, ballotVars>>

\* service.CreatePoll after the write: PublishPollCreated hands the poll to
\* the publisher, a failure is logged; the call returns poll.ID
CreatePoll_Publish(c, fail) ==
  /\ pcall[c].pc = "pPublish"
  /\ pollFacts' = IF fail THEN pollFacts
                  ELSE Append(pollFacts, [type |-> "poll.created",
                                          data |-> pcall[c].poll])
  /\ pcall' = [pcall EXCEPT ![c].pc = "idle", ![c].result = "ok",
                            ![c].id = pcall[c].poll.ID,
                            ![c].cfail = fail]
  /\ UNCHANGED <<polls, pollOptions, pcalls>>
  /\ UNCHANGED <<ledgerVars, limiterVars, busVars, ballotVars>>

BurstIdle ==
  /\ req = [c \in Procs |-> NoRequest]
  /\ blCount = Nil
  /\ blExp = Nil
  /\ admits = 0
  /\ gAdmitted = 0
  /\ gArrived = 0
  /\ gPassed = 0

RateIdle ==
  /\ rlCount = Nil
  /\ rlWindow = Nil
  /\ rlWindowExp = Nil
  /\ now = 0
  /\ rlLast = NoResponse
  /\ requests = 0
  /\ faults = 0
  /\ gWindow = Nil
  /\ gSeen = 0
  /\ gReset = FALSE
  /\ BurstIdle
  /\ PollIdle

Init == InitLedger /\ RateIdle

InitLegacy ==
  /\ impl = "legacy"
  /\ votes = {}
  /\ nextId = 1
  /\ \E n \in InitialCounts : dailyVotes = [u \in Users |-> n]
  /\ statsCache = [p \in PollIds |-> Miss]
  /\ published = [t \in FactTypes |-> 0]
  /\ call = [c \in Procs |-> Idle]
  /\ calls = 0
  /\ castToday = dailyVotes
  /\ okVotes = {}
  /\ deletedIds = {}
  /\ skips = {}
  /\ cfaults = 0
  /\ commits = 0
  /\ RateIdle

IncrementOutcomes == {"ok", "stmt_failed", "commit_failed"}

NextLegacy ==
  \E c \in Procs :
    \/ \E u \in Users, p \in PollIds, i \in Indexes : VoteOnPoll_Begin(c, u, p, i)
    \/ VoteOnPoll_GetCount(c)
    \/ \E fail \in BOOLEAN : CreateVote_Insert(c, fail)
    \/ \E outcome \in IncrementOutcomes : CreateVote_Increment(c, outcome)
    \/ VoteOnPoll_Invalidate(c, FALSE)
    \/ VoteOnPoll_Publish(c, FALSE)

SpecLegacy == InitLegacy /\ [][NextLegacy]_vars

\* the ledger with the cache and the publisher answering every call
NextLedger ==
  \E c \in Procs :
    \/ \E u \in Users, p \in PollIds, i \in Indexes : VoteOnPoll_Begin(c, u, p, i)
    \/ VoteOnPoll_GetCount(c)
    \/ \E fail \in BOOLEAN : CreateVote_Insert(c, fail)
    \/ VoteOnPoll_Invalidate(c, FALSE)
    \/ VoteOnPoll_Publish(c, FALSE)
    \/ \E vid \in 1 .. nextId, u \in Users : DeleteVote_Begin(c, vid, u)
    \/ DeleteVote_Delete(c)
    \/ DeleteVote_Publish(c, FALSE)
    \/ \E vid \in 1 .. nextId, u \in Users, i \in Indexes :
          UpdateVote_Begin(c, vid, u, i)
    \/ UpdateVote_Get(c)
    \/ UpdateVote_Verify(c)
    \/ UpdateVote_Update(c)
    \/ UpdateVote_Invalidate(c, FALSE)
    \/ UpdateVote_Publish(c, FALSE)
    \/ \E p \in PollIds : GetPollStats_Cached(c, p, FALSE)
    \/ GetPollStats_Compute(c)
    \/ GetPollStats_Set(c, FALSE)

Next == NextLedger

Spec == Init /\ [][Next]_vars

\* --------------------------------- the ledger with cache and publisher failing

\* the polls and the option indexes the requests of SpecCache name
CachePolls == {"p1", "p0"}
CacheIndexes == 0 .. NumOptions - 1

\* the store after one VoteOnPoll of u1 on p1 has returned and its stats
\* entry has expired: the storage repository leaves user_daily_votes alone
InitCache ==
  /\ impl = "storage"
  /\ votes = {[id |-> 1, poll |-> "p1", user |-> "u1",
               option |-> OptionID("p1", 0)]}
  /\ nextId = 2
  /\ dailyVotes = [u \in Users |-> 0]
  /\ statsCache = [p \in PollIds |-> Miss]
  /\ published = [t \in FactTypes |-> IF t = "poll.voted" THEN 1 ELSE 0]
  /\ call = [c \in Procs |-> Idle]
  /\ calls = 0
  /\ castToday = [u \in Users |-> IF u = "u1" THEN 1 ELSE 0]
  /\ okVotes = {[id |-> 1, poll |-> "p1", user |-> "u1"]}
  /\ deletedIds = {}
  /\ skips = {}
  /\ cfaults = 0
  /\ commits = 1
  /\ RateIdle

NextCache ==
  \/ \E p \in CachePolls : StatsCache_Expire(p)
  \/ \E c \in Procs :
    \/ \E u \in Users, p \in CachePolls, i \in CacheIndexes :
          VoteOnPoll_Begin(c, u, p, i)
    \/ VoteOnPoll_GetCount(c)
    \/ \E fail \in BOOLEAN : CreateVote_Insert(c, fail)
    \/ \E fail \in BOOLEAN : VoteOnPoll_Invalidate(c, fail)
    \/ \E fail \in BOOLEAN : VoteOnPoll_Publish(c, fail)
    \/ \E vid \in 1 .. nextId, u \in Users : DeleteVote_Begin(c, vid, u)
    \/ DeleteVote_Delete(c)
    \/ \E fail \in BOOLEAN : DeleteVote_Publish(c, fail)
    \/ \E vid \in 1 .. nextId, u \in Users, i \in CacheIndexes :
          UpdateVote_Begin(c, vid, u, i)
    \/ UpdateVote_Get(c)
    \/ UpdateVote_Verify(c)
    \/ UpdateVote_Update(c)
    \/ \E fail \in BOOLEAN : UpdateVote_Invalidate(c, fail)
    \/ \E fail \in BOOLEAN : UpdateVote_Publish(c, fail)
    \/ \E p \in CachePolls, fail \in BOOLEAN : GetPollStats_Cached(c, p, fail)
    \/ GetPollStats_Compute(c)
    \/ \E fail \in BOOLEAN : GetPollStats_Set(c, fail)
    \/ \E u \in Users, p \in CachePolls : SkipPoll_Begin(c, u, p)
    \/ \E fail \in BOOLEAN : SkipPoll_Create(c, fail)
    \/ \E fail \in BOOLEAN : SkipPoll_Publish(c, fail)

SpecCache == InitCache /\ [][NextCache]_vars

\* ------------------------------------------- skips next to the daily quota

\* the legacy repository, which keeps the daily counter, serving votes and
\* skips of users one vote below the cap or at it
NextSkip ==
  \E c \in Procs :
    \/ \E u \in Users, p \in PollIds, i \in Indexes : VoteOnPoll_Begin(c, u, p, i)
    \/ VoteOnPoll_GetCount(c)
    \/ \E fail \in BOOLEAN : CreateVote_Insert(c, fail)
    \/ \E outcome \in IncrementOutcomes : CreateVote_Increment(c, outcome)
    \/ VoteOnPoll_Invalidate(c, FALSE)
    \/ VoteOnPoll_Publish(c, FALSE)
    \/ \E u \in Users, p \in PollIds : SkipPoll_Begin(c, u, p)
    \/ \E fail \in BOOLEAN : SkipPoll_Create(c, fail)
    \/ SkipPoll_Publish(c, FALSE)

SpecSkip == InitLegacy /\ [][NextSkip]_vars

\* ------------------------------------------------------------ the feed

\* rows of poll_tags of the polls the ledger knows
PollTags(p) == IF p = "p1" THEN {"g"} ELSE {"h"}

\* created_at of those polls: p2 is the younger one
CreatedAt(p) == IF p = "p1" THEN 1 ELSE 2

FeedTags == {"", "g"}
FeedPages == 1 .. 2
FeedLimits == 1 .. 2

\* mutation of Unseen: only votes hide a poll
Unseen_VotesOnly(u, tag) ==
  {p \in Polls : /\ ~(\E v \in votes : v.poll = p /\ v.user = u)
                 /\ tag # "" => tag \in PollTags(p)}

\* the WHERE clause of the feed query: no vote and no skip of the user on
\* the poll, and the tag when one is asked for
Unseen(u, tag) ==
  {p \in Polls : /\ ~(\E v \in votes : v.poll = p /\ v.user = u)
                 /\ ~(\E k \in skips : k.poll = p /\ k.user = u)
                 /\ tag # "" => tag \in PollTags(p)}

\* ORDER BY p.created_at DESC
RECURSIVE ByCreatedDesc(_)
ByCreatedDesc(S) ==
  IF S = {} THEN <<>>
  ELSE LET p == CHOOSE q \in S : \A o \in S : CreatedAt(o) <= CreatedAt(q)
       IN <<p>> \o ByCreatedDesc(S \ {p})

\* LIMIT limit OFFSET (page - 1) * limit
PageOf(rows, page, limit) ==
  LET offset == (page - 1) * limit
      last == IF offset + limit < Len(rows) THEN offset + limit ELSE Len(rows)
  IN SubSeq(rows, offset + 1, last)

\* the legacy query is written with $3 and $4 for LIMIT and OFFSET but binds
\* three arguments when no tag is given: the statement is refused
FeedQueryFails(tag) == impl = "legacy" /\ tag = ""

\* service.GetPollsForFeed, Repository.GetPollsForFeed: the COUNT statement
GetPollsForFeed_Count(c, u, tag, page, limit) ==
  /\ call[c].pc \in {"idle", "done"}
  /\ calls < MaxCalls
  /\ calls' = calls + 1
  /\ LET r == [Idle EXCEPT !.op = "feed", !.user = u, !.tag = tag,
                           !.page = page, !.limit = limit]
     IN call' = [call EXCEPT ![c] =
          [r EXCEPT !.pc = "fSelect", !.total = Cardinality(Unseen(u, tag))]]
  /\ UNCHANGED <<impl, votes, nextId, dailyVotes, statsCache, published,
                 castToday, okVotes, deletedIds, sideVars>>
  /\ UNCHANGED <<limiterVars, pollVars, busVars, ballotVars>>

\* Repository.GetPollsForFeed: the SELECT statement of the page, then the
\* options and tags of each poll returned
GetPollsForFeed_Select(c) ==
  /\ call[c].pc = "fSelect"
  /\ call' = [call EXCEPT ![c] =
       IF FeedQueryFails(call[c].tag)
         THEN [call[c] EXCEPT !.pc = "done", !.result = "InternalFailure",
                              !.total = 0]
         ELSE [call[c] EXCEPT
                 !.pc = "done", !.result = "ok",
                 !.feed = PageOf(ByCreatedDesc(Unseen(call[c].user,
                                                     call[c].tag)),
                                 call[c].page, call[c].limit)]]
  /\ UNCHANGED <<impl, votes, nextId, dailyVotes, statsCache, published,
                 calls, castToday, okVotes, deletedIds, sideVars>>
  /\ UNCHANGED <<limiterVars, pollVars, busVars, ballotVars>>

\* voters, skippers and readers of the feed, on either repository
NextFeed ==
  \E c \in Procs :
    \/ \E u \in Users, p \in Polls : VoteOnPoll_Begin(c, u, p, 0)
    \/ VoteOnPoll_GetCount(c)
    \/ \E fail \in BOOLEAN : CreateVote_Insert(c, fail)
    \/ \E outcome \in IncrementOutcomes : CreateVote_Increment(c, outcome)
    \/ VoteOnPoll_Invalidate(c, FALSE)
    \/ VoteOnPoll_Publish(c, FALSE)
    \/ \E u \in Users, p \in Polls : SkipPoll_Begin(c, u, p)
    \/ \E fail \in BOOLEAN : SkipPoll_Create(c, fail)
    \/ SkipPoll_Publish(c, FALSE)
    \/ \E u \in Users, tag \in FeedTags, page \in FeedPages, limit \in FeedLimits :
         GetPollsForFeed_Count(c, u, tag, page, limit)
    \/ GetPollsForFeed_Select(c)

\* either repository, the users one vote below the daily cap or at it
InitFeed == Init \/ InitLegacy

SpecFeed == InitFeed /\ [][NextFeed]_vars

\* ----------------------------------------- deletions next to the daily quota

\* either repository wired behind the service, the users one vote below the
\* cap or at it
InitQuota == Init \/ InitLegacy

NextQuota ==
  \E c \in Procs :
    \/ \E u \in Users, p \in Polls, i \in CacheIndexes : VoteOnPoll_Begin(c, u, p, i)
    \/ VoteOnPoll_GetCount(c)
    \/ \E fail \in BOOLEAN : CreateVote_Insert(c, fail)
    \/ \E outcome \in IncrementOutcomes : CreateVote_Increment(c, outcome)
    \/ VoteOnPoll_Invalidate(c, FALSE)
    \/ VoteOnPoll_Publish(c, FALSE)
    \/ \E vid \in 1 .. nextId, u \in Users : DeleteVote_Begin(c, vid, u)
    \/ DeleteVote_Delete(c)
    \/ DeleteVote_Publish(c, FALSE)

SpecQuota == InitQuota /\ [][NextQuota]_vars

\* ---------------------------------------------------- the rate limiter

LedgerIdle ==
  /\ impl = "storage"
  /\ votes = {}
  /\ nextId = 1
  /\ dailyVotes = [u \in Users |-> 0]
  /\ statsCache = [p \in PollIds |-> Miss]
  /\ published = [t \in FactTypes |-> 0]
  /\ call = [c \in Procs |-> Idle]
  /\ calls = 0
  /\ castToday = dailyVotes
  /\ okVotes = {}
  /\ deletedIds = {}
  /\ skips = {}
  /\ cfaults = 0
  /\ commits = 0

\* c.Query("userId"): the identifier the client put in the query string
QueryUserId(caller) == IF caller = "get_query" THEN "u1" ELSE ""

\* an identity taken from the request context only
UserID_ContextOnly(caller) == IF caller = "resolved" THEN "u1" ELSE ""

\* RateLimit, lines 44-48, and BurstLimit, lines 172-176: user_id of the
\* request context, and for a GET without it the userId of the query
UserID(caller) == IF caller = "resolved" THEN "u1" ELSE QueryUserId(caller)

\* limiters without the early return for the statistics route
Exempt_Never(path) == FALSE

\* strings.HasPrefix(path, "/api/polls/") && strings.HasSuffix(path, "/stats")
Exempt(path) == path = StatsRoute

\* GET of a key: redis.Nil once the key has expired
StoredCount == rlCount
StoredWindow == IF rlWindow # Nil /\ now < rlWindowExp THEN rlWindow ELSE Nil

\* the rate window a keyed request arriving now falls in: the running one, or
\* a new one when none runs or the running one is at least a window old
WindowOf(t) ==
  IF gWindow = Nil \/ t - gWindow >= DefaultRateWindow THEN t ELSE gWindow

Respond(st, msg) == [NoResponse EXCEPT !.status = st, !.message = msg]

\* RateLimiter.RateLimit, lines 37-162, for one request
RateLimit(path, caller, readFails, writeFails) ==
  /\ IF Exempt(path) \/ caller = "post"
       THEN \* lines 39-42 and 48-60: c.Next() without touching a counter
            /\ rlLast' = Respond("next", "")
            /\ UNCHANGED <<rlCount, rlWindow, rlWindowExp, requests, faults,
                           gWindow, gSeen, gReset>>
       ELSE IF caller # "other" /\ UserID(caller) = ""
       THEN \* lines 64-71
            /\ rlLast' = Respond("401", "User ID is required")
            /\ UNCHANGED <<rlCount, rlWindow, rlWindowExp, requests, faults,
                           gWindow, gSeen, gReset>>
       ELSE IF caller = "other"
       THEN \* lines 79-86: a nil interface is neither string nor uuid.UUID
            /\ rlLast' = Respond("400", "Invalid user ID type")
            /\ UNCHANGED <<rlCount, rlWindow, rlWindowExp, requests, faults,
                           gWindow, gSeen, gReset>>
       ELSE \* lines 88-161
            LET fresh == WindowOf(now) # gWindow
                count0 == IF StoredCount = Nil THEN 0 ELSE StoredCount
                window0 == IF StoredWindow = Nil THEN now ELSE StoredWindow
                expired == now - window0 >= DefaultRateWindow
                count == IF expired THEN 0 ELSE count0
                window == IF expired THEN now ELSE window0
                failed == readFails \/ (writeFails /\ count < DefaultRateLimit)
            IN /\ requests < MaxRequests
               /\ requests' = requests + 1
               /\ failed => faults < MaxFaults
               /\ faults' = IF failed THEN faults + 1 ELSE faults
               /\ gWindow' = WindowOf(now)
               /\ gSeen' = IF fresh THEN 1 ELSE gSeen + 1
               /\ gReset' = IF fresh THEN gWindow # Nil ELSE gReset
               /\ IF readFails
                  THEN /\ rlLast' = Respond("500", "Rate limit check failed")
                       /\ UNCHANGED <<rlCount, rlWindow, rlWindowExp>>
                  ELSE IF count >= DefaultRateLimit
                  THEN /\ rlLast' = Respond("429", "Rate limit exceeded")
                       /\ UNCHANGED <<rlCount, rlWindow, rlWindowExp>>
                  ELSE /\ IF writeFails
                          THEN UNCHANGED <<rlCount, rlWindow, rlWindowExp>>
                          ELSE /\ rlCount' = count0 + 1
                               /\ rlWindow' = window
                               /\ rlWindowExp' = now + DefaultCleanupWindow
                       /\ rlLast' = [status |-> "next", message |-> "",
                                     limit |-> DefaultRateLimit,
                                     remaining |-> DefaultRateLimit - count - 1,
                                     reset |-> window + DefaultRateWindow]
  /\ UNCHANGED now
  /\ UNCHANGED <<ledgerVars, pollVars, busVars, ballotVars>>
  /\ UNCHANGED burstVars

\* time passes
Tick ==
  /\ now + TickStep <= MaxTime
  /\ now' = now + TickStep
  /\ UNCHANGED <<rlCount, rlWindow, rlWindowExp, rlLast, requests, faults,
                 gWindow, gSeen, gReset>>
  /\ UNCHANGED <<ledgerVars, pollVars, busVars, ballotVars>>
  /\ UNCHANGED burstVars

InitRate == LedgerIdle /\ RateIdle

\* one identified user sends request after request to one counted route
NextRate ==
  \/ \E readFails, writeFails \in BOOLEAN :
        RateLimit("/api/polls", "resolved", readFails, writeFails)
  \/ Tick

SpecRate == InitRate /\ [][NextRate]_vars

\* ----------------------------------------- the rate limiter after a pause

\* the pauses of a user: one rate window, or the lifetime of the window key
Pauses == {DefaultRateWindow, DefaultCleanupWindow}

\* the user sends nothing for d seconds
Pause(d) ==
  /\ now + d <= DefaultCleanupWindow + MaxWindows * DefaultRateWindow
  /\ now' = now + d
  /\ UNCHANGED <<rlCount, rlWindow, rlWindowExp, rlLast, requests, faults,
                 gWindow, gSeen, gReset>>
  /\ UNCHANGED <<ledgerVars, pollVars, busVars, ballotVars>>
  /\ UNCHANGED burstVars

\* the counters before any request, or after DefaultRateLimit - 1 admitted
\* requests in second 0
InitHeal ==
  /\ LedgerIdle
  /\ BurstIdle
  /\ PollIdle
  /\ now = 0
  /\ rlLast = NoResponse
  /\ requests = 0
  /\ faults = 0
  /\ gReset = FALSE
  /\ \/ /\ rlCount = Nil
        /\ rlWindow = Nil
        /\ rlWindowExp = Nil
        /\ gWindow = Nil
        /\ gSeen = 0
     \/ /\ rlCount = DefaultRateLimit - 1
        /\ rlWindow = 0
        /\ rlWindowExp = DefaultCleanupWindow
        /\ gWindow = 0
        /\ gSeen = DefaultRateLimit - 1

\* RateLimiter.RateLimit for a request of the user who pauses
Return(readFails, writeFails) ==
  /\ requests < MaxReturns
  /\ RateLimit("/api/polls", "resolved", readFails, writeFails)

\* one identified user sends a few requests to one counted route, with
\* pauses between them
NextHeal ==
  \/ \E readFails, writeFails \in BOOLEAN : Return(readFails, writeFails)
  \/ \E d \in Pauses : Pause(d)

SpecHeal == InitHeal /\ [][NextHeal]_vars

\* ------------------------------------------- the limiters, step by step

\* GET of the burst key: redis.Nil once it has expired
StoredBurst ==
  IF blCount # Nil /\ (blExp = Nil \/ now < blExp) THEN blCount ELSE Nil

\* an answer that does not stop the chain: the handler runs all the same
Abort_RunsHandler(r, st, msg, who) ==
  [r EXCEPT !.pc = "done", !.status = st, !.message = msg, !.by = who,
            !.handler = TRUE]

\* the answer of a limiter that stops the request (c.JSON and c.Abort)
Abort(r, st, msg, who) ==
  [r EXCEPT !.pc = "done", !.status = st, !.message = msg, !.by = who]

\* RateLimiter.RateLimit, lines 37-144: the route and caller checks, the
\* pipeline that reads count and window, and the decision
RateLimit_Read(c, path, caller, readFails) ==
  /\ req[c].pc \in {"idle", "done"}
  /\ admits < MaxAdmits
  /\ admits' = admits + 1
  /\ LET r0 == [NoRequest EXCEPT !.path = path, !.caller = caller]
         r == IF Exempt(path) \/ caller \in {"post", "other"}
                 \/ UserID(caller) = ""
              THEN r0
              ELSE [r0 EXCEPT !.key = <<"rate_limit", UserID(caller), path>>]
         count0 == IF StoredCount = Nil THEN 0 ELSE StoredCount
         window0 == IF StoredWindow = Nil THEN now ELSE StoredWindow
         expired == now - window0 >= DefaultRateWindow
         count == IF expired THEN 0 ELSE count0
         window == IF expired THEN now ELSE window0
     IN IF Exempt(path) \/ caller = "post"
        THEN /\ req' = [req EXCEPT ![c] = [r EXCEPT !.pc = "burst"]]
             /\ UNCHANGED faults
        ELSE IF caller # "other" /\ UserID(caller) = ""
        THEN /\ req' = [req EXCEPT ![c] =
                  Abort(r, "401", "User ID is required", "rate")]
             /\ UNCHANGED faults
        ELSE IF caller = "other"
        THEN /\ req' = [req EXCEPT ![c] =
                  Abort(r, "400", "Invalid user ID type", "rate")]
             /\ UNCHANGED faults
        ELSE IF readFails
        THEN /\ faults < MaxFaults
             /\ faults' = faults + 1
             /\ req' = [req EXCEPT ![c] =
                  [Abort(r, "500", "Rate limit check failed", "rate")
                     EXCEPT !.touched = TRUE, !.fault = "rl_read"]]
        ELSE /\ req' = [req EXCEPT ![c] =
                  IF count >= DefaultRateLimit
                  THEN [Abort(r, "429", "Rate limit exceeded", "rate")
                          EXCEPT !.touched = TRUE]
                  ELSE [r EXCEPT !.pc = "write", !.count = count,
                                 !.window = window, !.touched = TRUE]]
             /\ UNCHANGED faults
  /\ UNCHANGED <<rlCount, rlWindow, rlWindowExp, now, rlLast, requests,
                 gWindow, gSeen, gReset>>
  /\ UNCHANGED <<blCount, blExp, gAdmitted, gArrived, gPassed>>
  /\ UNCHANGED <<ledgerVars, pollVars, busVars, ballotVars>>

\* RateLimiter.RateLimit, lines 146-161: the pipeline INCR count, SET window;
\* its error is logged and the request goes on to the next handler
RateLimit_Write(c, writeFails) ==
  /\ req[c].pc = "write"
  /\ IF writeFails
     THEN /\ faults < MaxFaults
          /\ faults' = faults + 1
          /\ req' = [req EXCEPT ![c] =
               [req[c] EXCEPT !.pc = "burst", !.fault = "rl_write"]]
          /\ UNCHANGED <<rlCount, rlWindow, rlWindowExp>>
     ELSE /\ rlCount' = IF rlCount = Nil THEN 1 ELSE rlCount + 1
          /\ rlWindow' = req[c].window
          /\ rlWindowExp' = now + DefaultCleanupWindow
          /\ req' = [req EXCEPT ![c] = [req[c] EXCEPT !.pc = "burst",
                                                      !.consumed = TRUE]]
          /\ UNCHANGED faults
  /\ gAdmitted' = gAdmitted + 1
  /\ UNCHANGED <<now, rlLast, requests, gWindow, gSeen, gReset>>
  /\ UNCHANGED <<blCount, blExp, admits, gArrived, gPassed>>
  /\ UNCHANGED <<ledgerVars, pollVars, busVars, ballotVars>>

\* the ceiling check with >= in place of >
BurstDecide_OffByOne(r, count) ==
  IF count >= DefaultBurstLimit
  THEN Abort(r, "429", "Burst limit exceeded", "burst")
  ELSE [r EXCEPT !.pc = "done", !.status = "next", !.handler = TRUE]

\* RateLimiter.BurstLimit, lines 242-256: the ceiling check after INCR
BurstDecide(r, count) ==
  IF count > DefaultBurstLimit
  THEN Abort(r, "429", "Burst limit exceeded", "burst")
  ELSE [r EXCEPT !.pc = "done", !.status = "next", !.handler = TRUE]

\* RateLimiter.BurstLimit, lines 165-231 (and 242-256 when count is not 1):
\* the route and caller checks and the INCR of the burst key
BurstLimit_Incr(c, incrFails) ==
  /\ req[c].pc = "burst"
  /\ LET r == req[c]
         live == StoredBurst # Nil
         count == IF live THEN blCount + 1 ELSE 1
         keyed == [r EXCEPT !.bkey = <<"burst_limit", UserID(r.caller),
                                       r.path>>]
         counted == [keyed EXCEPT !.count = count, !.touched = TRUE,
                                  !.ord = IF live THEN gArrived + 1 ELSE 1]
     IN IF Exempt(r.path) \/ r.caller = "post"
        THEN /\ req' = [req EXCEPT ![c] =
                  [r EXCEPT !.pc = "done", !.status = "next",
                            !.handler = TRUE]]
             /\ UNCHANGED <<faults, blCount, blExp, gArrived, gPassed>>
        ELSE IF r.caller # "other" /\ UserID(r.caller) = ""
        THEN /\ req' = [req EXCEPT ![c] =
                  Abort(r, "401", "User ID is required", "burst")]
             /\ UNCHANGED <<faults, blCount, blExp, gArrived, gPassed>>
        ELSE IF r.caller = "other"
        THEN /\ req' = [req EXCEPT ![c] =
                  Abort(r, "400", "Invalid user ID type", "burst")]
             /\ UNCHANGED <<faults, blCount, blExp, gArrived, gPassed>>
        ELSE IF incrFails
        THEN /\ faults < MaxFaults
             /\ faults' = faults + 1
             /\ req' = [req EXCEPT ![c] =
                  [Abort(keyed, "500", "Burst limit check failed", "burst")
                     EXCEPT !.touched = TRUE, !.fault = "bl_incr"]]
             /\ UNCHANGED <<blCount, blExp, gArrived, gPassed>>
        ELSE /\ blCount' = count
             /\ blExp' = IF live THEN blExp ELSE Nil
             /\ gArrived' = IF live THEN gArrived + 1 ELSE 1
             /\ req' = [req EXCEPT ![c] =
                  IF count = 1 THEN [counted EXCEPT !.pc = "expire"]
                  ELSE BurstDecide(counted, count)]
             /\ gPassed' = IF count = 1 THEN 0
                           ELSE IF count > DefaultBurstLimit THEN gPassed
                           ELSE gPassed + 1
             /\ UNCHANGED faults
  /\ UNCHANGED <<rlCount, rlWindow, rlWindowExp, now, rlLast, requests,
                 gWindow, gSeen, gReset>>
  /\ UNCHANGED <<admits, gAdmitted>>
  /\ UNCHANGED <<ledgerVars, pollVars, busVars, ballotVars>>

\* RateLimiter.BurstLimit, lines 233-256 for the request whose INCR gave 1:
\* EXPIRE key 1s, its error only logged, then the ceiling check
BurstLimit_Expire(c, expireFails) ==
  /\ req[c].pc = "expire"
  /\ IF expireFails
     THEN /\ faults < MaxFaults
          /\ faults' = faults + 1
          /\ req' = [req EXCEPT ![c] =
               BurstDecide([req[c] EXCEPT !.fault = "bl_expire"],
                           req[c].count)]
          /\ UNCHANGED blExp
     ELSE /\ blExp' = IF blCount # Nil THEN now + 1 ELSE blExp
          /\ req' = [req EXCEPT ![c] = BurstDecide(req[c], req[c].count)]
          /\ UNCHANGED faults
  /\ gPassed' = gPassed + 1
  /\ UNCHANGED <<rlCount, rlWindow, rlWindowExp, now, rlLast, requests,
                 gWindow, gSeen, gReset>>
  /\ UNCHANGED <<blCount, admits, gAdmitted, gArrived>>
  /\ UNCHANGED <<ledgerVars, pollVars, busVars, ballotVars>>

\* one second passes
TickSecond ==
  /\ now + 1 <= MaxSeconds
  /\ now' = now + 1
  /\ UNCHANGED <<rlCount, rlWindow, rlWindowExp, rlLast, requests, faults,
                 gWindow, gSeen, gReset>>
  /\ UNCHANGED burstVars
  /\ UNCHANGED <<ledgerVars, pollVars, busVars, ballotVars>>

\* the states the chain starts in: no key yet at second 0; after 499
\* requests in second 0, the burst counter one below its ceiling; or, at
\* second 1, after 500 requests in second 0 and 499 in second 1, both
\* counters one below their ceilings
AdmitStarts ==
  { [now |-> 0, rlCount |-> Nil, rlWindow |-> Nil, rlWindowExp |-> Nil,
     blCount |-> Nil, blExp |-> Nil, admitted |-> 0, arrived |-> 0],
    [now |-> 0, rlCount |-> DefaultBurstLimit - 1, rlWindow |-> 0,
     rlWindowExp |-> DefaultCleanupWindow,
     blCount |-> DefaultBurstLimit - 1, blExp |-> 1,
     admitted |-> DefaultBurstLimit - 1, arrived |-> DefaultBurstLimit - 1],
    [now |-> 1, rlCount |-> DefaultRateLimit - 1, rlWindow |-> 0,
     rlWindowExp |-> 1 + DefaultCleanupWindow,
     blCount |-> DefaultBurstLimit - 1, blExp |-> 2,
     admitted |-> DefaultRateLimit - 1, arrived |-> DefaultBurstLimit - 1] }

InitAdmit ==
  /\ LedgerIdle
  /\ PollIdle
  /\ rlLast = NoResponse
  /\ requests = 0
  /\ faults = 0
  /\ gWindow = Nil
  /\ gSeen = 0
  /\ gReset = FALSE
  /\ req = [c \in Procs |-> NoRequest]
  /\ admits = 0
  /\ \E st \in AdmitStarts :
       /\ now = st.now
       /\ rlCount = st.rlCount
       /\ rlWindow = st.rlWindow
       /\ rlWindowExp = st.rlWindowExp
       /\ blCount = st.blCount
       /\ blExp = st.blExp
       /\ gAdmitted = st.admitted
       /\ gArrived = st.arrived
       /\ gPassed = st.arrived

\* two workers serve requests of one user: RateLimit, then BurstLimit
NextAdmit ==
  \/ \E c \in Procs :
       \/ \E path \in Paths, caller \in Callers, readFails \in BOOLEAN :
             RateLimit_Read(c, path, caller, readFails)
       \/ \E writeFails \in BOOLEAN : RateLimit_Write(c, writeFails)
       \/ \E incrFails \in BOOLEAN : BurstLimit_Incr(c, incrFails)
       \/ \E expireFails \in BOOLEAN : BurstLimit_Expire(c, expireFails)
  \/ TickSecond

SpecAdmit == InitAdmit /\ [][NextAdmit]_vars

\* ------------------------------------------------------------ the claims

IsVote(c) == call[c].op = "vote" /\ call[c].pc = "done"

\* the request names an existing poll and an index inside [0, len(options))
ValidRequest(c) ==
  /\ call[c].poll \in Polls
  /\ call[c].idx >= 0 /\ call[c].idx < NumOptions

\* no row written by the call has been removed since
StillStored(c) ==
  call[c].created # 0 => \E v \in votes : v.id = call[c].created

\* C1: in every reachable state, under any interleaving of VoteOnPoll,
\* UpdateVote and DeleteVote calls by any users, table votes holds at most one
\* row for each (poll, user) pair.
C1_OneVotePerPollUser ==
  \A v, w \in votes : (v.poll = w.poll /\ v.user = w.user) => v = w

\* a second insert for a pair that already has a row has been refused
C1_Witness ==
  \E c \in Procs : IsVote(c) /\ call[c].dup /\ HasVoted(call[c].poll, call[c].user)

\* C2: of two VoteOnPoll calls for the same poll and user (poll exists, index
\* valid, quota available, no vote of the pair before the two calls, store
\* answering), in every interleaving exactly one returns success and the other
\* returns ErrAlreadyVoted.
C2_OneWinnerOneAlreadyVoted ==
  \A c, d \in Procs :
    ( /\ c # d
      /\ IsVote(c) /\ IsVote(d)
      /\ call[c].user = call[d].user /\ call[c].poll = call[d].poll
      /\ ValidRequest(c) /\ ValidRequest(d)
      /\ call[c].startCount < MaxDailyVotes /\ call[d].startCount < MaxDailyVotes
      /\ ~call[c].fault /\ ~call[d].fault
      /\ call[c].priorId = 0
      /\ call[d].priorId \in {0, call[c].created}
      /\ StillStored(c) /\ StillStored(d) )
    => \/ call[c].result = "ok" /\ call[d].result = "ErrAlreadyVoted"
       \/ call[d].result = "ok" /\ call[c].result = "ErrAlreadyVoted"

\* both calls passed the existence check before either inserted: the loser
\* was refused by the insert itself
C2_Witness ==
  \E c, d \in Procs :
    /\ c # d /\ IsVote(c) /\ IsVote(d)
    /\ call[c].user = call[d].user /\ call[c].poll = call[d].poll
    /\ call[c].priorId = 0 /\ call[d].priorId = 0
    /\ call[c].result = "ok"
    /\ call[d].result = "ErrAlreadyVoted" /\ call[d].dup

\* C3 as stated: once a VoteOnPoll(p, u, i) has returned success, every later
\* VoteOnPoll(p, u, j), after any sequence of other operations, fails with
\* ErrAlreadyVoted (the request is valid and the store answers).
C3_Original ==
  \A c \in Procs :
    (IsVote(c) /\ ValidRequest(c) /\ call[c].afterOk /\ ~call[c].fault)
       => call[c].result = "ErrAlreadyVoted"

\* C3 amended: once a VoteOnPoll(p, u, i) has returned success, every later
\* VoteOnPoll(p, u, j) issued while the vote it created has not been deleted
\* fails with ErrAlreadyVoted.
C3_AlreadyVotedUntilDeleted ==
  \A c \in Procs :
    (IsVote(c) /\ call[c].priorOk) => call[c].result = "ErrAlreadyVoted"

\* a later call for a pair whose earlier call succeeded has been refused,
\* with an update of the vote in between
C3_Witness ==
  \E c \in Procs :
    /\ IsVote(c) /\ call[c].priorOk /\ call[c].result = "ErrAlreadyVoted"
    /\ published["poll.vote.updated"] >= 1

\* C4: for a user whose daily count is 99, two concurrent VoteOnPoll calls on
\* two different polls result in exactly one success and exactly one
\* ErrDailyVoteLimitExceeded.
C4_OneQuotaUnitOneWinner ==
  \A c, d \in Procs :
    ( /\ c # d
      /\ IsVote(c) /\ IsVote(d)
      /\ call[c].user = call[d].user /\ call[c].poll # call[d].poll
      /\ ValidRequest(c) /\ ValidRequest(d)
      /\ call[c].startCount = MaxDailyVotes - 1
      /\ call[d].startCount = MaxDailyVotes - 1
      /\ call[c].priorId = 0 /\ call[d].priorId = 0
      /\ ~call[c].fault /\ ~call[d].fault )
    => \/ call[c].result = "ok" /\ call[d].result = "ErrDailyVoteLimitExceeded"
       \/ call[d].result = "ok" /\ call[c].result = "ErrDailyVoteLimitExceeded"

C6_AtMostCapVotesPerDay ==
  \A u \in Users : castToday[u] <= MaxDailyVotes

Quiescent == \A c \in Procs : call[c].pc \in {"idle", "done"}

\* C7: with no deletions, once every call has returned the counter of
\* (u, today) equals the number of VoteOnPoll calls by u that returned success
\* today.
C7_CounterCountsSuccesses ==
  (Quiescent /\ deletedIds = {}) =>
     \A u \in Users : dailyVotes[u] = castToday[u]

\* C8: when a VoteOnPoll call has returned, either the vote exists and the
\* counter was incremented by the call, or the call returned an error and
\* neither the vote nor the increment is present.
C8_AllOrNothing ==
  \A c \in Procs :
    IsVote(c) =>
      \/ call[c].result = "ok" /\ call[c].created # 0 /\ call[c].bumped
      \/ call[c].result # "ok" /\ call[c].created = 0 /\ ~call[c].bumped

\* C9: in SpecRate, with no counter-store call failed, the k-th request of a
\* rate window is admitted for k = 1 .. 1000 with the limit header 1000, the
\* remaining header 1000 - k and the reset header window start + 60, and the
\* 1001st request of the window is rejected with 'Rate limit exceeded'.
C9_ThousandAdmittedThenRejected ==
  (faults = 0 /\ gSeen >= 1) =>
    /\ gSeen <= DefaultRateLimit =>
         /\ rlLast.status = "next"
         /\ rlLast.limit = DefaultRateLimit
         /\ rlLast.remaining = DefaultRateLimit - gSeen
         /\ rlLast.remaining >= 0
         /\ rlLast.reset = gWindow + DefaultRateWindow
    /\ gSeen = DefaultRateLimit + 1 =>
         /\ rlLast.status = "429"
         /\ rlLast.message = "Rate limit exceeded"

\* C10: in SpecRate, with no counter-store call failed, the request that
\* arrives at least 60 s after the stored window start opens a new window, and
\* that request and the next 999 requests of the new window are all admitted,
\* whatever number of requests earlier windows counted.
C10_ResetWindowAdmitsCeiling ==
  (faults = 0 /\ gReset /\ gSeen >= 1 /\ gSeen <= DefaultRateLimit) =>
    rlLast.status = "next"

\* C11: in SpecAdmit, under any interleaving of the requests of one user to
\* one counted route and with no counter-store call failed, the sustained
\* limiter passes on at most 1000 requests within one rate window.
C11_AtMostCeilingPerWindow ==
  faults = 0 => gAdmitted <= DefaultRateLimit

\* the worker has answered a request that the burst limiter counted
BurstCounted(c) ==
  req[c].pc = "done" /\ req[c].ord >= 1 /\ req[c].fault # "bl_incr"

C13_StatsRouteExempt ==
  \A c \in Procs :
    (req[c].pc # "idle" /\ req[c].path = StatsRoute) =>
      /\ req[c].pc \in {"burst", "done"}
      /\ ~req[c].touched
      /\ req[c].fault = "none"
      /\ req[c].ord = 0
      /\ req[c].pc = "done" => (req[c].status = "next" /\ req[c].handler)

\* a statistics request has reached its handler while the sustained counter
\* is at its ceiling and a counter-store call of another request has failed
C13_Witness ==
  \E c \in Procs :
    /\ req[c].path = StatsRoute /\ req[c].pc = "done" /\ req[c].handler
    /\ rlCount >= DefaultRateLimit
    /\ faults >= 1

\* C14: in SpecAdmit, a request for which the read pipeline or the write
\* pipeline of the sustained limiter, or the INCR of the burst limiter,
\* failed is answered with status 500 and never reaches the handler.
C14_FailClosed ==
  \A c \in Procs :
    (req[c].pc = "done" /\ req[c].fault \in {"rl_read", "rl_write", "bl_incr"})
      => (req[c].status = "500" /\ ~req[c].handler)

\* the call changed table votes and has returned success
IsMutation(c) ==
  /\ call[c].op \in {"vote", "update", "delete"}
  /\ call[c].pc = "done" /\ call[c].result = "ok"

\* C15: while no cache or publisher call has failed, once a VoteOnPoll,
\* UpdateVote or DeleteVote has returned success the cache holds no stats
\* entry for its poll that was computed before the call changed the votes.
C15_NoEntryOlderThanMutation ==
  cfaults = 0 =>
    \A c \in Procs :
      (IsMutation(c) /\ statsCache[call[c].poll].hit)
         => statsCache[call[c].poll].asOf >= call[c].mutAt

\* C16: a GetPollStats that is served from the cache never returns a value
\* that was computed from the store before an invalidation of the poll's
\* entry (and before the write that invalidation follows) that had completed
\* when the call started.
C16_NoValueFromBeforeInvalidation ==
  \A c \in Procs :
    (call[c].op = "stats" /\ call[c].pc = "done" /\ call[c].cached)
       => ~call[c].pre

\* the GetPollStats call has returned an entry of the cache
ServedFromCache(c) ==
  call[c].op = "stats" /\ call[c].pc = "done" /\ call[c].cached

\* C17: a GetPollStats served from the cache returns the options and counts
\* that the call which missed, computed them from the store and wrote the
\* entry returned.
C17_WarmEqualsCold ==
  \A c \in Procs :
    ServedFromCache(c) =>
      /\ call[c].stats = call[c].src
      /\ call[c].result = "ok"

\* an entry with a count above zero has been served while the votes it was
\* computed from are unchanged
C17_Witness ==
  \E c \in Procs :
    /\ ServedFromCache(c)
    /\ call[c].stats.Votes # <<>>
    /\ call[c].stats.Votes[1].Count = 1
    /\ call[c].stats = PollStats(call[c].poll)
    /\ call[c].asOf = commits

\* the write of the call is in the store, or a later DeleteVote removed it
NotRolledBack(c) ==
  CASE call[c].op = "vote" ->
         \/ \E v \in votes : v.id = call[c].created
         \/ call[c].created \in deletedIds
    [] call[c].op = "skip" -> \E k \in skips : k.id = call[c].created
    [] call[c].op = "update" ->
         \/ \E v \in votes : v.id = call[c].vid
         \/ call[c].vid \in deletedIds
    [] call[c].op = "delete" -> call[c].vid \in deletedIds
    [] OTHER -> TRUE

\* C18: a call during which the cache (invalidate, read or write) or the
\* publisher failed returns success all the same: the write of VoteOnPoll,
\* SkipPoll, UpdateVote and DeleteVote is not rolled back, and GetPollStats
\* returns the stats it computed from the store.
C18_FailuresSwallowed ==
  \A c \in Procs :
    (call[c].pc = "done" /\ call[c].cfail) =>
      /\ call[c].result = "ok"
      /\ NotRolledBack(c)
      /\ call[c].op = "stats" =>
           (~call[c].cached /\ call[c].stats = call[c].src)

\* a VoteOnPoll whose publish or invalidation failed has returned success
\* and its vote is stored
C18_Witness ==
  \E c \in Procs :
    /\ call[c].pc = "done" /\ call[c].cfail /\ call[c].op = "vote"
    /\ call[c].result = "ok"
    /\ \E v \in votes : v.id = call[c].created

\* C19: once every call has returned, a GetPollStats that was served from
\* the cache has returned what a read of the store at that moment gives, which
\* is what the call returns when every cache read misses.
C19_CacheIsTransparent ==
  Quiescent =>
    \A c \in Procs : ServedFromCache(c) => call[c].stats = call[c].fresh

IsSkip(c) == call[c].op = "skip" /\ call[c].pc = "done"

\* C20: table skips holds at most one row for each (poll, user) pair; a
\* SkipPoll that starts after a successful SkipPoll of the pair fails with
\* ErrAlreadySkipped; and of two SkipPoll calls of a pair that had no skip
\* before them (poll exists, store answering), in every interleaving exactly
\* one returns success and the other returns ErrAlreadySkipped.
C20_OneSkipPerPollUser ==
  /\ \A k, l \in skips : (k.poll = l.poll /\ k.user = l.user) => k.id = l.id
  /\ \A c \in Procs :
       (IsSkip(c) /\ call[c].priorOk) => call[c].result = "ErrAlreadySkipped"
  /\ \A c, d \in Procs :
       ( /\ c # d
         /\ IsSkip(c) /\ IsSkip(d)
         /\ call[c].user = call[d].user /\ call[c].poll = call[d].poll
         /\ call[c].poll \in Polls
         /\ ~call[c].fault /\ ~call[d].fault
         /\ call[c].priorId = 0
         /\ call[d].priorId \in {0, call[c].created} )
       => \/ call[c].result = "ok" /\ call[d].result = "ErrAlreadySkipped"
          \/ call[d].result = "ok" /\ call[c].result = "ErrAlreadySkipped"

\* both calls passed HasSkipped before either inserted: the loser was refused
\* by the insert itself, and one row is stored
C20_Witness ==
  \E c, d \in Procs :
    /\ c # d /\ IsSkip(c) /\ IsSkip(d)
    /\ call[c].user = call[d].user /\ call[c].poll = call[d].poll
    /\ call[c].priorId = 0 /\ call[d].priorId = 0
    /\ call[c].result = "ok"
    /\ call[d].result = "ErrAlreadySkipped" /\ call[d].dup
    /\ Cardinality({k \in skips : k.poll = call[c].poll
                                  /\ k.user = call[c].user}) = 1

\* worker c takes a step of the operation op
StepOf(c, op) == call'[c] # call[c] /\ call'[c].op = op

\* C21: a SkipPoll of a user whose daily count is at the cap succeeds (poll
\* exists, pair not skipped before, store answering), and no step of any
\* SkipPoll call, successful or not, changes a daily counter.
C21_SkipExemptFromCap ==
  /\ [](\A c \in Procs :
          ( /\ IsSkip(c) /\ call[c].startCount = MaxDailyVotes
            /\ call[c].poll \in Polls /\ call[c].priorId = 0
            /\ ~call[c].fault /\ ~call[c].dup )
          => call[c].result = "ok")
  /\ [][\A c \in Procs : StepOf(c, "skip") => dailyVotes' = dailyVotes]_vars

\* a user at the cap has skipped a poll after being refused a vote on it
C21_Witness ==
  \E c, d \in Procs :
    /\ IsSkip(c) /\ call[c].startCount = MaxDailyVotes
    /\ call[c].result = "ok"
    /\ \E k \in skips : k.poll = call[c].poll /\ k.user = call[c].user
    /\ IsVote(d) /\ call[d].user = call[c].user
    /\ call[d].result = "ErrDailyVoteLimitExceeded"

\* the request names an existing poll and an index outside [0, len(options))
OutOfRange(c) ==
  /\ call[c].poll \in Polls
  /\ (call[c].idx < 0 \/ call[c].idx >= NumOptions)

\* a step of a VoteOnPoll that ends it with ErrInvalidOption writes nothing
InvalidOptionWritesNothing ==
  \A c \in Procs :
    (StepOf(c, "vote") /\ call'[c].result = "ErrInvalidOption")
       => UNCHANGED <<votes, dailyVotes, statsCache, published>>

\* C22 as stated: VoteOnPoll on an existing poll with an index outside
\* [0, len(options)) fails with ErrInvalidOption, creates no vote, changes no
\* counter, invalidates no cache entry and publishes no fact.
C22_Original ==
  /\ [](\A c \in Procs :
          (IsVote(c) /\ OutOfRange(c))
             => (call[c].result = "ErrInvalidOption" /\ call[c].created = 0))
  /\ [][InvalidOptionWritesNothing]_vars

\* C22 amended: VoteOnPoll on an existing poll on which the user has no vote,
\* with an index outside [0, len(options)), fails with ErrInvalidOption,
\* creates no vote, changes no counter, invalidates no cache entry and
\* publishes no fact.
C22_InvalidOptionNoEffect ==
  /\ [](\A c \in Procs :
          (IsVote(c) /\ OutOfRange(c) /\ call[c].priorId = 0)
             => (call[c].result = "ErrInvalidOption" /\ call[c].created = 0))
  /\ [][InvalidOptionWritesNothing]_vars

\* both an index of -1 and an index of len(options) have been refused
C22_Witness ==
  \E c, d \in Procs :
    /\ IsVote(c) /\ OutOfRange(c) /\ call[c].priorId = 0
    /\ call[c].idx = NumOptions /\ call[c].result = "ErrInvalidOption"
    /\ IsVote(d) /\ OutOfRange(d) /\ call[d].priorId = 0
    /\ call[d].idx = -1 /\ call[d].result = "ErrInvalidOption"

IsUpdate(c) == call[c].op = "update" /\ call[c].pc = "done"

\* the vote the call names existed when the call started and belongs to
\* another user
NotOwner(c) == call[c].got # NoVote /\ call[c].got.user # call[c].user

\* C23: an UpdateVote by a user who does not own the vote fails with
\* ErrUnauthorized for every index, in range or not, and the step that
\* refuses it leaves every vote as it is.
C23_UpdateByOtherUnauthorized ==
  /\ [](\A c \in Procs :
          (IsUpdate(c) /\ NotOwner(c)) => call[c].result = "ErrUnauthorized")
  /\ [][\A c \in Procs :
          (StepOf(c, "update") /\ call'[c].result = "ErrUnauthorized")
             => votes' = votes]_vars

\* an update by another user with an index out of range has been refused as
\* unauthorized and the vote still names its option
C23_Witness ==
  \E c \in Procs :
    /\ IsUpdate(c) /\ NotOwner(c)
    /\ call[c].idx = NumOptions
    /\ call[c].result = "ErrUnauthorized"
    /\ call[c].got \in votes

\* the option of the vote is one of the options of the vote's poll
OptionOfOwnPoll(v) ==
  \E k \in 0 .. NumOptions - 1 : v.option = OptionID(v.poll, k)

\* the caller owns the vote the call names
Owner(c) == call[c].got # NoVote /\ call[c].got.user = call[c].user

\* the step is the UPDATE statement of worker c changing a row
Repoints(c) == call[c].pc = "uUpdate" /\ call'[c].pc = "uInvalidate"

\* C24: every vote names an option of its own poll; the UPDATE of a
\* successful UpdateVote by the owner with an index in range repoints the
\* vote to that option of the poll and changes neither the vote's poll, its
\* user, the number of votes nor a counter; an UpdateVote by the owner with an
\* index out of range fails with ErrInvalidOption and changes nothing.
C24_OptionOfOwnPoll ==
  /\ [](\A v \in votes : OptionOfOwnPoll(v))
  /\ [](\A c \in Procs :
          /\ (IsUpdate(c) /\ call[c].result = "ok")
                => (Owner(c) /\ call[c].idx \in 0 .. NumOptions - 1)
          /\ (IsUpdate(c) /\ Owner(c)
                /\ (call[c].idx < 0 \/ call[c].idx >= NumOptions))
                => call[c].result = "ErrInvalidOption")
  /\ [][\A c \in Procs :
          /\ Repoints(c) =>
               \E v \in votes :
                 /\ v.id = call[c].vid
                 /\ votes' = (votes \ {v}) \cup
                      {[v EXCEPT !.option = OptionID(v.poll, call[c].idx)]}
                 /\ Cardinality(votes') = Cardinality(votes)
          /\ StepOf(c, "update") => dailyVotes' = dailyVotes
          /\ (StepOf(c, "update") /\ ~Repoints(c)) => votes' = votes]_vars

\* an owner has moved the vote from option 0 to option 1 of its poll, and an
\* owner's update with an index out of range has been refused
C24_Witness ==
  \E c, d \in Procs :
    /\ IsUpdate(c) /\ Owner(c) /\ call[c].result = "ok" /\ call[c].idx = 1
    /\ call[c].got.option = OptionID(call[c].poll, 0)
    /\ \E v \in votes : v.id = call[c].vid /\ v.option = OptionID(v.poll, 1)
    /\ IsUpdate(d) /\ Owner(d) /\ call[d].idx = NumOptions
    /\ call[d].result = "ErrInvalidOption"

IsDelete(c) == call[c].op = "delete" /\ call[c].pc = "done"

\* the step is the DELETE statement of worker c removing a row
Removes(c) == call[c].pc = "dDelete" /\ call'[c].pc = "dPublish"

\* C25: a DeleteVote by a user who does not own the vote fails with
\* ErrUnauthorized and the vote remains; a DeleteVote by the owner removes
\* exactly that row; a DeleteVote of an id no vote has fails with ErrNotFound,
\* so the owner is answered success or ErrNotFound and never ErrUnauthorized.
C25_DeleteByOwnerOnly ==
  /\ [](\A c \in Procs :
          /\ (IsDelete(c) /\ NotOwner(c)) => call[c].result = "ErrUnauthorized"
          /\ (IsDelete(c) /\ call[c].got = NoVote)
                => call[c].result = "ErrNotFound"
          /\ (IsDelete(c) /\ Owner(c))
                => call[c].result \in {"ok", "ErrNotFound"})
  /\ [][\A c \in Procs :
          /\ Removes(c) =>
               \E v \in votes : v.id = call[c].vid /\ votes' = votes \ {v}
          /\ (StepOf(c, "delete") /\ ~Removes(c)) => votes' = votes]_vars

Anonymous(c, caller) ==
  req[c].pc # "idle" /\ req[c].caller = caller /\ ~Exempt(req[c].path)

\* C27: a GET without a resolved identity is keyed in both limiters by the
\* userId of its query string and is rejected (401, no counter touched) when
\* that is empty; a POST without a resolved identity is passed on by both
\* limiters and no step of it reads or writes a counter.
C27_AnonymousFallback ==
  /\ [](\A c \in Procs :
          /\ Anonymous(c, "get_query") =>
               /\ req[c].key = <<"rate_limit", QueryUserId("get_query"),
                                 req[c].path>>
               /\ req[c].touched
               /\ req[c].bkey \in {<<>>, <<"burst_limit",
                                         QueryUserId("get_query"),
                                         req[c].path>>}
               /\ (req[c].handler /\ req[c].pc = "done") => req[c].bkey # <<>>
          /\ Anonymous(c, "get_empty") =>
               /\ req[c].pc = "done" /\ req[c].status = "401"
               /\ ~req[c].handler /\ ~req[c].touched
          /\ Anonymous(c, "post") =>
               /\ ~req[c].touched /\ req[c].key = <<>> /\ req[c].bkey = <<>>
               /\ req[c].pc = "done" => (req[c].handler /\ req[c].status = "next"))
  /\ [][\A c \in Procs :
          (req'[c] # req[c] /\ req'[c].caller \in {"post", "get_empty"})
             => UNCHANGED <<rlCount, rlWindow, rlWindowExp, blCount, blExp>>]_vars

\* a GET keyed by its query userId has been counted by both limiters and
\* passed on, a GET with an empty userId has been rejected, and a POST has
\* been passed on untouched
C27_Witness ==
  \E c, d \in Procs :
    /\ Anonymous(c, "get_query") /\ req[c].pc = "done" /\ req[c].handler
    /\ req[c].bkey # <<>> /\ rlCount >= 1 /\ blCount >= 1
    /\ Anonymous(d, "post") /\ req[d].pc = "done" /\ req[d].handler

\* ------------------------------------------------------------ C28

InitPoll == InitRate \/ InitLegacy

\* two workers serve CreatePoll requests; store and publisher may fail
NextPoll ==
  \/ \E c \in Procs, r \in PollRequests : CreatePoll_Begin(c, r)
  \/ \E c \in Procs, fail \in BOOLEAN :
       CreatePoll_Insert(c, fail, EveryTick(Len(pcall[c].req.options)))
  \/ \E c \in Procs, fail \in BOOLEAN : CreatePoll_Publish(c, fail)

SpecPoll == InitPoll /\ [][NextPoll]_vars

\* a finished CreatePoll call of worker c
IsCreate(c) == pcall[c].op = "create" /\ pcall[c].pc = "idle"

\* a request with an empty title, fewer than two options or no tags
Malformed(r) == r.title = "" \/ Len(r.options) < 2 \/ Len(r.tags) = 0

\* the poll.created facts published for poll id
FactsOf(id) ==
  LET About(f) == f.type = "poll.created" /\ f.data.ID = id
  IN Len(SelectSeq(pollFacts, About))

\* the stored options of poll id are the request's texts numbered 0..n-1
IndexedInOrder(id, r) ==
  {[poll |-> o.poll, text |-> o.text, index |-> o.index] :
     o \in {q \in pollOptions : q.poll = id}} =
    {[poll |-> id, text |-> r.options[i], index |-> i - 1] :
       i \in 1 .. Len(r.options)}

FeedAnswered(c) == StepOf(c, "feed") /\ call'[c].pc = "done" /\ call'[c].result = "ok"

\* C29: a page GetPollsForFeed returns for user u holds no poll on which a
\* vote or a skip of u is stored at the time of the query.
C29_FeedExcludesSeen ==
  [][\A c \in Procs : FeedAnswered(c) =>
       \A i \in 1 .. Len(call'[c].feed) :
         /\ ~HasVoted(call'[c].feed[i], call'[c].user)
         /\ ~HasSkipped(call'[c].feed[i], call'[c].user)]_vars

\* u1 voted on p1 and skipped p2, and the feed of u1 came back empty
C29_Witness ==
  \E c \in Procs :
    /\ call[c].op = "feed" /\ call[c].pc = "done" /\ call[c].result = "ok"
    /\ call[c].user = "u1" /\ call[c].tag = "" /\ call[c].limit = 2
    /\ call[c].page = 1
    /\ call[c].feed = <<>>
    /\ HasVoted("p1", "u1") /\ HasSkipped("p2", "u1")
    /\ ~HasVoted("p2", "u1")

\* ------------------------------------------------------------ C30

\* a counted request of the user is answered in this step by the limiter
\* with its counter store answering
Answered == requests' = requests + 1 /\ rlLast'.status # "500"

\* the user's last counted request fell in the rate window that began at
\* gWindow, so it came before gWindow + DefaultRateWindow: two window lengths
\* after gWindow the user has sent nothing for one full window
QuietForAWindow == gWindow # Nil /\ now - gWindow >= 2 * DefaultRateWindow

\* C30: a user who has sent no request to a route for one full window length
\* is admitted on the next request, whatever the counter store holds.
C30_SelfHealing ==
  [][(Answered /\ QuietForAWindow) => rlLast'.status = "next"]_vars

\* ------------------------------------------------------------ C31

\* no request stands between its INCR of the burst key and its EXPIRE
NoExpirePending == \A c \in Procs : req[c].pc # "expire"

\* C31: under every outcome of the counter-store calls, a burst counter
\* that holds 1 or more carries an expiry once the request that created it
\* has made its EXPIRE call.
C31_BurstKeyCarriesExpiry ==
  (StoredBurst # Nil /\ blCount >= 1 /\ NoExpirePending) => blExp # Nil

\* ------------------------------------------------------------ C32

\* the counts the guarded increment starts from
GuardCounts == {0, MaxDailyVotes - 2, MaxDailyVotes - 1, MaxDailyVotes}

\* PostgresRepository of internal/storage/db behind the calls
InitGuard ==
  /\ impl = "db"
  /\ votes = {}
  /\ nextId = 1
  /\ \E n \in GuardCounts : dailyVotes = [u \in Users |-> n]
  /\ statsCache = [p \in PollIds |-> Miss]
  /\ published = [t \in FactTypes |-> 0]
  /\ call = [c \in Procs |-> Idle]
  /\ calls = 0
  /\ castToday = dailyVotes
  /\ okVotes = {}
  /\ deletedIds = {}
  /\ skips = {}
  /\ cfaults = 0
  /\ commits = 0
  /\ RateIdle

\* a caller enters PostgresRepository.IncrementUserDailyVoteCount
IncrementUserDailyVoteCount_Begin(c, u) ==
  /\ call[c].pc \in {"idle", "done"}
  /\ calls < MaxCalls
  /\ calls' = calls + 1
  /\ call' = [call EXCEPT ![c] =
       [Idle EXCEPT !.op = "incr", !.pc = "gExec", !.user = u,
                    !.startCount = dailyVotes[u]]]
  /\ UNCHANGED <<impl, votes, nextId, dailyVotes, statsCache, published,
                 castToday, okVotes, deletedIds, sideVars>>
  /\ UNCHANGED <<limiterVars, pollVars, busVars, ballotVars>>

\* the upsert without its WHERE vote_count < $3
IncrementUserDailyVoteCount_Exec_Unguarded(c, fail) ==
  /\ call[c].pc = "gExec"
  /\ LET u == call[c].user
     IN IF fail
          THEN /\ call' = [call EXCEPT ![c].pc = "done",
                                       ![c].result = "InternalFailure",
                                       ![c].fault = TRUE]
               /\ UNCHANGED dailyVotes
          ELSE /\ dailyVotes' = [dailyVotes EXCEPT ![u] = @ + 1]
               /\ call' = [call EXCEPT ![c].pc = "done",
                                       ![c].result = "ok",
                                       ![c].count = dailyVotes[u]]
  /\ UNCHANGED <<impl, votes, nextId, statsCache, published, calls,
                 castToday, okVotes, deletedIds, sideVars>>
  /\ UNCHANGED <<limiterVars, pollVars, busVars, ballotVars>>

\* PostgresRepository.IncrementUserDailyVoteCount, lines 222-245: one
\* statement inserts the row with count 1 or adds 1 to a count below
\* MaxDailyVotes; no row affected is ErrDailyVoteLimitExceeded
IncrementUserDailyVoteCount_Exec(c, fail) ==
  /\ call[c].pc = "gExec"
  /\ LET u == call[c].user
     IN IF fail
          THEN /\ call' = [call EXCEPT ![c].pc = "done",
                                       ![c].result = "InternalFailure",
                                       ![c].fault = TRUE]
               /\ UNCHANGED dailyVotes
          ELSE IF dailyVotes[u] < MaxDailyVotes
          THEN /\ dailyVotes' = [dailyVotes EXCEPT ![u] = @ + 1]
               /\ call' = [call EXCEPT ![c].pc = "done",
                                       ![c].result = "ok",
                                       ![c].count = dailyVotes[u]]
          ELSE /\ call' = [call EXCEPT
                             ![c].pc = "done",
                             ![c].result = "ErrDailyVoteLimitExceeded",
                             ![c].count = dailyVotes[u]]
               /\ UNCHANGED dailyVotes
  /\ UNCHANGED <<impl, votes, nextId, statsCache, published, calls,
                 castToday, okVotes, deletedIds, sideVars>>
  /\ UNCHANGED <<limiterVars, pollVars, busVars, ballotVars>>

\* two workers call the guarded increment for either user
NextGuard ==
  \E c \in Procs :
    \/ \E u \in Users : IncrementUserDailyVoteCount_Begin(c, u)
    \/ \E fail \in BOOLEAN : IncrementUserDailyVoteCount_Exec(c, fail)

SpecGuard == InitGuard /\ [][NextGuard]_vars

\* a finished call of the guarded increment the store answered
IsIncrement(c) ==
  call[c].op = "incr" /\ call[c].pc = "done" /\ ~call[c].fault

BothDeleted(c, d) ==
  /\ c # d /\ IsDelete(c) /\ IsDelete(d)
  /\ call[c].vid = call[d].vid /\ call[c].user = call[d].user
  /\ Owner(c) \/ Owner(d)

\* C33: of two DeleteVote calls of the owner for one vote, one returns
\* success and the other ErrNotFound, never ErrUnauthorized.
C33_SecondDeleteNotFound ==
  \A c, d \in Procs :
    BothDeleted(c, d) =>
      {call[c].result, call[d].result} = {"ok", "ErrNotFound"}

\* ------------------------------------------------------------ C34

\* the request of worker c was answered 429 by one of the limiters
Rejected(c) == req[c].pc = "done" /\ req[c].status = "429"

\* C34: a request rejected by the sustained limiter or by the burst limiter
\* has not incremented the sustained-rate count of its (user, route).
C34_RejectedConsumesNoQuota ==
  \A c \in Procs : Rejected(c) => ~req[c].consumed

\* ------------------------------------------------------------ C35

\* the operations that announce a ledger write, the step of each that calls
\* the publisher, and the fact it publishes
FactOps == {"vote", "skip", "update", "delete"}

PublishPc(op) ==
  CASE op = "vote" -> "vPublish"
    [] op = "skip" -> "kPublish"
    [] op = "update" -> "uPublish"
    [] op = "delete" -> "dPublish"

FactOf(op) ==
  CASE op = "vote" -> "poll.voted"
    [] op = "skip" -> "poll.skipped"
    [] op = "update" -> "poll.vote.updated"
    [] op = "delete" -> "poll.vote.deleted"

\* worker c returns from one of these operations in this step
Returns(c) ==
  call'[c] # call[c] /\ call'[c].pc = "done" /\ call'[c].op \in FactOps

\* this step of worker c is its call of the publisher
Submits(c) == call[c].op \in FactOps /\ call[c].pc = PublishPc(call[c].op)

\* the durable write of the call of worker c has been committed
WriteCompleted(c) ==
  IF call[c].op = "skip"
    THEN \E k \in skips : k.id = call[c].created
    ELSE call[c].mutAt \in 1 .. commits

\* C35: a VoteOnPoll, SkipPoll, UpdateVote or DeleteVote call that returns
\* success has handed its fact to the publisher in its last step, once and
\* after its durable write was committed; a call that returns an error has
\* not called the publisher; no fact is published any other way.
C35_OneFactPerSuccess ==
  [][/\ \A c \in Procs :
          /\ (Returns(c) /\ call'[c].result = "ok") =>
                /\ Submits(c)
                /\ WriteCompleted(c)
                /\ \A t \in FactTypes : t # FactOf(call[c].op) =>
                      published'[t] = published[t]
                /\ published'[FactOf(call[c].op)] \in
                      {published[FactOf(call[c].op)],
                       published[FactOf(call[c].op)] + 1}
                /\ ~call'[c].cfail =>
                      published'[FactOf(call[c].op)] =
                        published[FactOf(call[c].op)] + 1
          /\ (Returns(c) /\ call'[c].result # "ok") =>
                ~Submits(c) /\ published' = published
          /\ (Submits(c) /\ call'[c] # call[c]) =>
                Returns(c) /\ call'[c].result = "ok"
     /\ published' # published =>
          \E c \in Procs : Returns(c) /\ Submits(c)]_vars

\* a DeleteVote returned success and its fact was published, while a
\* VoteOnPoll was refused and published nothing
C35_Witness ==
  \E c, d \in Procs :
    /\ call[c].op = "delete" /\ call[c].pc = "done"
    /\ call[c].result = "ok" /\ ~call[c].cfail
    /\ published["poll.vote.deleted"] = 1
    /\ call[d].op = "vote" /\ call[d].pc = "done"
    /\ call[d].result = "ErrAlreadyVoted"
    /\ published["poll.voted"] = 1

\* ------------------------------------------------------------ C36

\* the request of worker c was stopped by the sustained limiter
StoppedByRate(c) == req[c].pc = "done" /\ req[c].by = "rate"

\* the request of worker c was stopped by the burst limiter
StoppedByBurst(c) == req[c].pc = "done" /\ req[c].by = "burst"

\* worker c's request is stopped by a limiter in this step
Stops(c) == req'[c] # req[c] /\ req'[c].pc = "done" /\ req'[c].by # "none"

\* C36: a request the sustained limiter stops reaches neither the burst
\* counter nor the handler, a request the burst limiter stops does not reach
\* the handler, and the step that stops a request changes neither the ledger
\* nor the cache nor the published facts; stopping in the sustained limiter
\* does not touch the burst counter.
C36_RejectionIsTerminal ==
  /\ [](\A c \in Procs :
          /\ StoppedByRate(c) => ~req[c].handler /\ req[c].bkey = <<>>
          /\ StoppedByBurst(c) => ~req[c].handler)
  /\ [][\A c \in Procs :
          /\ Stops(c) => UNCHANGED <<votes, skips, dailyVotes, statsCache,
                                     published>>
          /\ (Stops(c) /\ req'[c].by = "rate") => UNCHANGED <<blCount, blExp>>
          /\ (req[c].pc = "done" /\ req[c].by # "none" /\ req'[c].pc # "done")
                => req'[c].bkey = <<>> /\ ~req'[c].handler]_vars

\* one request was answered 429 by the sustained limiter and another 429 by
\* the burst limiter
C36_Witness ==
  \E c, d \in Procs :
    /\ StoppedByRate(c) /\ req[c].status = "429"
    /\ StoppedByBurst(d) /\ req[d].status = "429"

\* ------------------------------------------------------------ C37

\* the five routing keys the publisher uses, which are also the event types
EventTypes == FactTypes \cup {"poll.created"}

\* a routing key as the exchange reads it: words separated by dots
Words(key) ==
  CASE key = "poll.created" -> <<"poll", "created">>
    [] key = "poll.voted" -> <<"poll", "voted">>
    [] key = "poll.skipped" -> <<"poll", "skipped">>
    [] key = "poll.vote.updated" -> <<"poll", "vote", "updated">>
    [] key = "poll.vote.deleted" -> <<"poll", "vote", "deleted">>

\* matching of a topic exchange: * stands for exactly one word, # for any
\* number of words
RECURSIVE TopicMatch(_, _)
TopicMatch(pattern, key) ==
  IF pattern = <<>> THEN key = <<>>
  ELSE IF Head(pattern) = "#"
    THEN \/ TopicMatch(Tail(pattern), key)
         \/ key # <<>> /\ TopicMatch(pattern, Tail(key))
  ELSE /\ key # <<>>
       /\ Head(pattern) = "*" \/ Head(pattern) = Head(key)
       /\ TopicMatch(Tail(pattern), Tail(key))

\* NewRabbitMQPublisher: vote_events and poll_updates are bound to exchange
\* vote with the key poll.*
Bindings == [q \in {"vote_events", "poll_updates"} |-> <<"poll", "*">>]

\* publishEvent: the fact goes to exchange vote with its routing key, not
\* mandatory; the exchange copies it to every queue whose binding matches
publishEvent(key) ==
  /\ Len(sentFacts) < MaxFacts
  /\ sentFacts' = Append(sentFacts, key)
  /\ LET m == Len(sentFacts) + 1
     IN /\ voteEvents' = IF TopicMatch(Bindings["vote_events"], Words(key))
                           THEN Append(voteEvents, m) ELSE voteEvents
        /\ unroutable' =
             IF \E q \in DOMAIN Bindings : TopicMatch(Bindings[q], Words(key))
               THEN unroutable ELSE unroutable \cup {m}
  /\ UNCHANGED acked
  /\ UNCHANGED <<ledgerVars, limiterVars, pollVars, ballotVars>>

\* the event types handleMessage has a case for
Handled == {"poll.created", "poll.voted", "poll.skipped"}

\* RabbitMQConsumer.Start and handleMessage for the delivery at the head of
\* vote_events: Ack when the handler returned nil, Nack with requeue for an
\* unknown event type
handleMessage ==
  /\ voteEvents # <<>>
  /\ LET m == Head(voteEvents)
     IN IF sentFacts[m] \in Handled
          THEN /\ voteEvents' = Tail(voteEvents)
               /\ acked' = acked \cup {m}
          ELSE /\ voteEvents' = Append(Tail(voteEvents), m)
               /\ UNCHANGED acked
  /\ UNCHANGED <<sentFacts, unroutable>>
  /\ UNCHANGED <<ledgerVars, limiterVars, pollVars, ballotVars>>

NextBus ==
  \/ \E key \in EventTypes : publishEvent(key)
  \/ handleMessage

\* the consumer goroutine keeps receiving while deliveries wait
SpecBus == InitRate /\ [][NextBus]_vars /\ WF_vars(handleMessage)

\* C37: every fact handed to exchange vote, whatever its type, is
\* eventually acknowledged by the consumer of vote_events.
C37_EveryFactAcknowledged ==
  \A m \in 1 .. MaxFacts : (Len(sentFacts) >= m) ~> (m \in acked)

\* ------------------------------------------------------------ C38

\* binding:"required,min=0" on the int field OptionIndex of the body of
\* updateVote: required refuses the zero value of the type, min=0 a
\* negative one
BindsOptionIndex(i) == i # 0 /\ i >= 0

\* Handler.updateVote: ShouldBindJSON answers 400 invalid request body and
\* the service is not called; otherwise service.UpdateVote starts
updateVote(c, vid, u, i) ==
  IF BindsOptionIndex(i)
    THEN UpdateVote_Begin(c, vid, u, i)
    ELSE /\ call[c].pc \in {"idle", "done"}
         /\ calls < MaxCalls
         /\ calls' = calls + 1
         /\ call' = [call EXCEPT ![c] =
              [Idle EXCEPT !.op = "update", !.user = u, !.vid = vid,
                           !.idx = i, !.pc = "done",
                           !.result = "BadRequest"]]
         /\ UNCHANGED <<impl, votes, nextId, dailyVotes, statsCache,
                        published, castToday, okVotes, deletedIds>>
         /\ UNCHANGED <<limiterVars, pollVars, busVars, ballotVars>>
         /\ UNCHANGED sideVars

\* votes are cast, and PUT /api/users/me/votes/{voteId} requests arrive
NextHandler ==
  \E c \in Procs :
    \/ \E u \in Users, p \in Polls, i \in CacheIndexes : VoteOnPoll_Begin(c, u, p, i)
    \/ VoteOnPoll_GetCount(c)
    \/ \E fail \in BOOLEAN : CreateVote_Insert(c, fail)
    \/ VoteOnPoll_Invalidate(c, FALSE)
    \/ VoteOnPoll_Publish(c, FALSE)
    \/ \E vid \in 1 .. nextId, u \in Users, i \in Indexes :
          updateVote(c, vid, u, i)
    \/ UpdateVote_Get(c)
    \/ UpdateVote_Verify(c)
    \/ UpdateVote_Update(c)
    \/ UpdateVote_Invalidate(c, FALSE)
    \/ UpdateVote_Publish(c, FALSE)

SpecHandler == Init /\ [][NextHandler]_vars

\* a PUT request of worker c arrives in this step, for a vote of the caller
\* and with an index of an existing option
OwnInRangePut(c) ==
  /\ call[c].pc \in {"idle", "done"}
  /\ call'[c] # call[c]
  /\ call'[c].op = "update"
  /\ call'[c].idx \in 0 .. NumOptions - 1
  /\ \E v \in votes : v.id = call'[c].vid /\ v.user = call'[c].user

\* C38: a PUT for a vote of the caller with optionIndex i in [0, len(options))
\* passes the request validation of the handler and is answered with
\* success, the vote pointing at option i.
C38_EveryIndexAccepted ==
  /\ [][\A c \in Procs : OwnInRangePut(c) => call'[c].pc = "uGet"]_vars
  /\ [](\A c \in Procs :
          (IsUpdate(c) /\ Owner(c) /\ call[c].idx \in 0 .. NumOptions - 1)
            => call[c].result = "ok")

\* ------------------------------------------------------------ C39

\* a VoteOnPoll call of worker c arrives in this step
VoteArrives(c) ==
  call[c].pc \in {"idle", "done"} /\ call'[c] # call[c] /\ call'[c].op = "vote"

\* the errors of the four checks of VoteOnPoll
CheckErrors == {"ErrAlreadyVoted", "ErrNotFound", "ErrInvalidOption",
                "ErrDailyVoteLimitExceeded"}

\* C39: VoteOnPoll answers with the error of the first failing check in the
\* order already voted, poll existence, option range, daily quota (so a
\* user at the cap with an out-of-range index on a poll not yet voted on
\* gets ErrInvalidOption), and a call that ends with one of these errors
\* creates no vote.
C39_ChecksInOrder ==
  [][\A c \in Procs :
       /\ VoteArrives(c) =>
            LET u == call'[c].user
                p == call'[c].poll
                i == call'[c].idx
            IN IF HasVoted(p, u)
                 THEN call'[c].pc = "done"
                      /\ call'[c].result = "ErrAlreadyVoted"
               ELSE IF p \notin Polls
                 THEN call'[c].pc = "done" /\ call'[c].result = "ErrNotFound"
               ELSE IF i \notin 0 .. NumOptions - 1
                 THEN call'[c].pc = "done"
                      /\ call'[c].result = "ErrInvalidOption"
               ELSE call'[c].pc # "done"
       /\ (StepOf(c, "vote") /\ call[c].pc = "vCount"
             /\ dailyVotes[call[c].user] >= MaxDailyVotes)
            => call'[c].pc = "done"
               /\ call'[c].result = "ErrDailyVoteLimitExceeded"
       /\ (StepOf(c, "vote") /\ call'[c].pc = "done"
             /\ call'[c].result \in CheckErrors) => votes' = votes]_vars

\* a user at the daily cap was answered ErrInvalidOption for an index out of
\* range and ErrNotFound for a poll that does not exist
C39_Witness ==
  \E c, d \in Procs :
    /\ call[c].op = "vote" /\ call[c].pc = "done"
    /\ call[c].poll \in Polls /\ call[c].idx = NumOptions
    /\ dailyVotes[call[c].user] = MaxDailyVotes
    /\ call[c].result = "ErrInvalidOption"
    /\ call[d].op = "vote" /\ call[d].pc = "done"
    /\ call[d].poll \notin Polls
    /\ call[d].result = "ErrNotFound"
    /\ votes = {}

\* ------------------------------------------------- votes on created polls

\* the rows of table poll_options of poll p
OptionsOf(p) == {o \in pollOptions : o.poll = p}

\* the rows sorted the other way round
OrderedByCreatedAt_Desc(S) ==
  {s \in [1 .. Cardinality(S) -> S] :
     \A i, j \in 1 .. Cardinality(S) :
       i < j => s[i] # s[j] /\ s[i].createdAt >= s[j].createdAt}

\* the orders in which ORDER BY created_at can return the rows S: rows with
\* the same created_at come in either order
OrderedByCreatedAt(S) ==
  {s \in [1 .. Cardinality(S) -> S] :
     \A i, j \in 1 .. Cardinality(S) :
       i < j => s[i] # s[j] /\ s[i].createdAt <= s[j].createdAt}

\* Repository.GetPollByID, lines 240-250: rows.Scan fills ID, OptionText and
\* CreatedAt of an option; PollID and OptionIndex keep their zero values
ScanOption(o) ==
  [ID |-> o.id, PollID |-> 0, OptionText |-> o.text, OptionIndex |-> 0,
   CreatedAt |-> o.createdAt]

\* json.Marshal of a domain.Poll: the fields under their json tags
MarshalPoll(poll) ==
  [id |-> poll.ID, title |-> poll.Title,
   options |-> [i \in DOMAIN poll.Options |->
                  [id |-> poll.Options[i].ID,
                   pollId |-> poll.Options[i].PollID,
                   optionText |-> poll.Options[i].OptionText,
                   optionIndex |-> poll.Options[i].OptionIndex,
                   createdAt |-> poll.Options[i].CreatedAt]]]

\* json.Unmarshal into a domain.Poll
UnmarshalPoll(data) ==
  [ID |-> data.id, Title |-> data.title,
   Options |-> [i \in DOMAIN data.options |->
                  [ID |-> data.options[i].id,
                   PollID |-> data.options[i].pollId,
                   OptionText |-> data.options[i].optionText,
                   OptionIndex |-> data.options[i].optionIndex,
                   CreatedAt |-> data.options[i].createdAt]]]

NoPollRead == [ID |-> 0, Title |-> "", Options |-> <<>>]

\* Repository.GetPollByID: the cached poll when the key can be read and is
\* there; otherwise the row of table polls (none: ErrNotFound) with its
\* options in the order of created_at
GetPollByID(p, readFails) ==
  IF ~readFails /\ pollCache[p].hit
    THEN {[err |-> "nil", src |-> "cache",
           poll |-> UnmarshalPoll(pollCache[p].data)]}
  ELSE IF ~\E r \in polls : r.id = p
    THEN {[err |-> "ErrNotFound", src |-> "store", poll |-> NoPollRead]}
  ELSE {[err |-> "nil", src |-> "store",
         poll |-> [ID |-> p,
                   Title |-> (CHOOSE r \in polls : r.id = p).title,
                   Options |-> [i \in DOMAIN s |-> ScanOption(s[i])]]] :
          s \in OrderedByCreatedAt(OptionsOf(p))}

\* Repository.GetPollByID, line 275: a poll read from the store is cached,
\* the error of SetCachedPoll is dropped
SetCachedPoll(g, writeFails) ==
  IF g.err = "nil" /\ g.src = "store" /\ ~writeFails
    THEN [pollCache EXCEPT ![g.poll.ID] =
            [hit |-> TRUE, data |-> MarshalPoll(g.poll)]]
    ELSE pollCache

\* SELECT EXISTS (SELECT 1 FROM votes WHERE poll_id = $1 AND user_id = $2)
HasBallot(p, u) == \E b \in ballots : b.poll = p /\ b.user = u

\* calls the workers start in a run with votes on created polls
MaxBallots == 3
\* of which the first ones can create a poll
MaxCreated == 1

VoteReturns(c, p, u, i, res) ==
  [BallotIdleCall EXCEPT !.op = "vote", !.poll = p, !.user = u, !.idx = i,
                         !.result = res]

\* service.VoteOnPoll, lines 137-162: HasVoted, GetPollByID, the range of
\* the index, the daily count
VoteOnPoll_GetPollByID(c, p, u, i, readFails, writeFails) ==
  /\ vcall[c].pc = "idle"
  /\ pcall[c].pc = "idle"
  /\ pcalls < MaxBallots
  /\ pcalls' = pcalls + 1
  /\ IF HasBallot(p, u)
       THEN /\ vcall' = [vcall EXCEPT ![c] =
                           VoteReturns(c, p, u, i, "ErrAlreadyVoted")]
            /\ UNCHANGED pollCache
       ELSE \E g \in GetPollByID(p, readFails) :
              /\ pollCache' = SetCachedPoll(g, writeFails)
              /\ vcall' = [vcall EXCEPT ![c] =
                   IF g.err # "nil"
                     THEN VoteReturns(c, p, u, i, g.err)
                   ELSE IF i < 0 \/ i >= Len(g.poll.Options)
                     THEN VoteReturns(c, p, u, i, "ErrInvalidOption")
                   ELSE IF GetUserDailyVoteCount(u) >= MaxDailyVotes
                     THEN VoteReturns(c, p, u, i,
                                      "ErrDailyVoteLimitExceeded")
                   ELSE [VoteReturns(c, p, u, i, "none") EXCEPT
                           !.pc = "vCreate", !.src = g.src,
                           !.optionID = g.poll.Options[i + 1].ID]]
  /\ UNCHANGED <<pollStatsCache, ballots>>
  /\ UNCHANGED <<polls, pollOptions, pollFacts, pcall>>
  /\ UNCHANGED <<ledgerVars, limiterVars, busVars>>

\* Repository.CreateVote: the INSERT (a second vote of the user on the poll
\* violates UNIQUE(poll_id, user_id): ErrAlreadyVoted), then the poll is
\* read and cached once more
VoteOnPoll_CreateVote(c, fail, readFails, writeFails) ==
  /\ vcall[c].pc = "vCreate"
  /\ LET p == vcall[c].poll
         u == vcall[c].user
     IN IF fail \/ HasBallot(p, u)
          THEN /\ vcall' = [vcall EXCEPT
                    ![c].pc = "idle",
                    ![c].result = IF fail THEN "InternalFailure"
                                  ELSE "ErrAlreadyVoted"]
               /\ UNCHANGED <<ballots, pollCache>>
          ELSE /\ ballots' = ballots \cup
                     {[poll |-> p, user |-> u,
                       option |-> vcall[c].optionID]}
               /\ \E g \in GetPollByID(p, readFails) :
                    pollCache' = IF g.err = "nil" /\ ~writeFails
                                   THEN [pollCache EXCEPT ![p] =
                                           [hit |-> TRUE,
                                            data |-> MarshalPoll(g.poll)]]
                                   ELSE pollCache
               /\ vcall' = [vcall EXCEPT ![c].pc = "vNotify"]
  /\ UNCHANGED <<pollStatsCache, pcalls>>
  /\ UNCHANGED <<polls, pollOptions, pollFacts, pcall>>
  /\ UNCHANGED <<ledgerVars, limiterVars, busVars>>

\* service.VoteOnPoll, lines 176-191: InvalidatePollStatsCache deletes key
\* poll:stats:<id>, PublishPollVoted hands the vote to the publisher; both
\* errors are logged and the call returns nil
VoteOnPoll_Notify(c, invFails, pubFails) ==
  /\ vcall[c].pc = "vNotify"
  /\ pollStatsCache' = IF invFails THEN pollStatsCache
                       ELSE [pollStatsCache EXCEPT ![vcall[c].poll] = NoEntry]
  /\ pollFacts' = IF pubFails THEN pollFacts
                  ELSE Append(pollFacts,
                              [type |-> "poll.voted",
                               data |-> [PollID |-> vcall[c].poll,
                                         UserID |-> vcall[c].user,
                                         OptionID |-> vcall[c].optionID]])
  /\ vcall' = [vcall EXCEPT ![c].pc = "idle", ![c].result = "ok"]
  /\ UNCHANGED <<pollCache, ballots>>
  /\ UNCHANGED <<polls, pollOptions, pcall, pcalls>>
  /\ UNCHANGED <<ledgerVars, limiterVars, busVars>>

\* Repository.GetPollStats: one row per (option_text, created_at) of the
\* poll's options with COUNT(v.id) of the votes joined on option_id, in the
\* order of created_at
RepositoryGetPollStats(p) ==
  LET groups == {[text |-> o.text, createdAt |-> o.createdAt] :
                   o \in OptionsOf(p)}
      count(g) == Cardinality({b \in ballots :
                     \E o \in OptionsOf(p) :
                       /\ o.text = g.text /\ o.createdAt = g.createdAt
                       /\ b.option = o.id})
  IN {[PollID |-> p,
       Votes |-> [i \in DOMAIN s |->
                    [Option |-> s[i].text, Count |-> count(s[i])]]] :
        s \in OrderedByCreatedAt(groups)}

\* service.GetPollStats: the cached statistics when there are any, otherwise
\* those of the store, which are cached
GetPollStats(c, p) ==
  /\ vcall[c].pc = "idle"
  /\ pcall[c].pc = "idle"
  /\ pcalls < MaxBallots
  /\ pcalls' = pcalls + 1
  /\ IF pollStatsCache[p].hit
       THEN /\ vcall' = [vcall EXCEPT ![c] =
                 [BallotIdleCall EXCEPT
                    !.op = "stats", !.poll = p, !.src = "cache",
                    !.result = "ok",
                    !.stats = Unmarshal(pollStatsCache[p].data)]]
            /\ UNCHANGED pollStatsCache
       ELSE \E s \in RepositoryGetPollStats(p) :
              /\ vcall' = [vcall EXCEPT ![c] =
                   [BallotIdleCall EXCEPT
                      !.op = "stats", !.poll = p, !.src = "store",
                      !.result = "ok", !.stats = s]]
              /\ pollStatsCache' = [pollStatsCache EXCEPT ![p] =
                   [hit |-> TRUE, data |-> Marshal(s)]]
  /\ UNCHANGED <<pollCache, ballots>>
  /\ UNCHANGED <<polls, pollOptions, pollFacts, pcall>>
  /\ UNCHANGED <<ledgerVars, limiterVars, busVars>>

\* a key of the cache reaches the end of its life: 24 hours for poll:<id>,
\* 5 minutes for poll:stats:<id>
KeyExpires(p, stats) ==
  /\ IF stats THEN pollStatsCache[p].hit ELSE pollCache[p].hit
  /\ pollCache' = IF stats THEN pollCache
                  ELSE [pollCache EXCEPT ![p] = NoEntry]
  /\ pollStatsCache' = IF stats THEN [pollStatsCache EXCEPT ![p] = NoEntry]
                       ELSE pollStatsCache
  /\ UNCHANGED <<ballots, vcall>>
  /\ UNCHANGED <<ledgerVars, limiterVars, pollVars, busVars>>

\* the well-formed requests polls are created with: two options, or three
\* of which two carry the same text
BallotRequests ==
  [nil : {FALSE}, title : {"t"},
   options : {<<"x", "y">>, <<"x", "x", "z">>}, tags : {<<"g">>}]

\* Repository.CreatePoll with the clock readings of its transaction
CreatePoll_Commit(c, fail) ==
  \E stamps \in Stamps(Len(pcall[c].req.options)) :
    CreatePoll_Insert(c, fail, stamps)

\* two workers, each serving one request at a time, create polls, vote on
\* them and read their statistics; store, cache and publisher may fail
NextBallot ==
  \/ \E c \in Procs, r \in BallotRequests :
       /\ vcall[c].pc = "idle"
       /\ pcalls < MaxCreated
       /\ CreatePoll_Begin(c, r)
  \/ \E c \in Procs, fail \in BOOLEAN : CreatePoll_Commit(c, fail)
  \/ \E c \in Procs, fail \in BOOLEAN : CreatePoll_Publish(c, fail)
  \/ \E c \in Procs, p \in PollIDs, u \in Users, i \in -1 .. 2,
        readFails, writeFails \in BOOLEAN :
       VoteOnPoll_GetPollByID(c, p, u, i, readFails, writeFails)
  \/ \E c \in Procs, fail, readFails, writeFails \in BOOLEAN :
       VoteOnPoll_CreateVote(c, fail, readFails, writeFails)
  \/ \E c \in Procs, invFails, pubFails \in BOOLEAN :
       VoteOnPoll_Notify(c, invFails, pubFails)
  \/ \E c \in Procs, p \in PollIDs : GetPollStats(c, p)
  \/ \E p \in PollIDs, stats \in BOOLEAN : KeyExpires(p, stats)

SpecBallot == Init /\ [][NextBallot]_vars

\* ------------------------------------------------------------ C40

\* worker c has served a VoteOnPoll call that returned nil
VotedOK(c) ==
  vcall[c].op = "vote" /\ vcall[c].pc = "idle" /\ vcall[c].result = "ok"

====
